---------------------------- MODULE Spec2Model ----------------------------
(***************************************************************************)
(* A model of three parts of asciidork:                                    *)
(*   - the evaluator's Xref arm         (src/eval/src/eval.rs)             *)
(*   - the root lexer's source stack    (src/parser/src/lexer/root_lexer.rs)*)
(*   - the inline parser                (src/parser/src/tasks/parse_inlines.rs)*)
(* Each part has its own specification (EvalSpec, LexSpec, InlineSpec);    *)
(* a specification leaves the variables of the other parts untouched.      *)
(***************************************************************************)
EXTENDS Integers, Sequences, FiniteSets, TLC

VARIABLES
  \* ---- evaluator (eval.rs) ----
  anchors,         \* ctx.doc.anchors: id -> Anchor {reftext, title}
  evalStack,       \* the call stack of eval_inline: one frame per node list being iterated
  resolving_xref,  \* ctx.resolving_xref
  calls,           \* the backend calls made so far, in order
  resolved,        \* history: one record per Xref node evaluated (which branch it took)
  evalState,       \* "running" | "done" | "diverged"
  \* ---- root lexer (root_lexer.rs) ----
  idx,             \* RootLexer.idx: index of the active source (0 = primary)
  next_idx,        \* RootLexer.next_idx: Option<u16>, NoIdx for None
  source_stack,    \* RootLexer.source_stack: indices of the suspended sources
  sources,         \* RootLexer.sources: one SourceLexer {len, pos} per source
  tmp_buf,         \* RootLexer.tmp_buf: Option<(SourceLexer, BufLoc)>
  trace,           \* history: the calls made on the lexer and what next_token returned
  pushedAt,        \* history: per source, the active source and its pos at push_source
  overwritten,     \* history: sources whose pending activation a later push replaced
  \* ---- inline parser (parse_inlines.rs) ----
  input,           \* the block handed to parse_inlines: a sequence of lines of tokens
  block,           \* the lines not yet consumed (front = current line)
  frames,          \* one frame per active call of parse_inlines_until
  ctxSubs,         \* self.ctx.subs
  status,          \* "init" | "run" | "ok" | "err" | "todo!" | "assert!" | "panic!"
  result,          \* the inlines parse_inlines returned
  returns,         \* history: one record per return of parse_inlines_until
  \* ---- autolinks (Line::consume_url, line.rs) ----
  urlLine0,        \* the tokens of the line after the url scheme token
  urlLine,         \* the tokens of the line not yet consumed
  urlInlines,      \* the inlines pushed so far by the autolink arm and after it
  urlPc,           \* "idle" | "scheme" | "rest"
  \* ---- the document walk (visit, eval.rs) ----
  doc,             \* the Document handed to visit
  backend,         \* the backend calls visit has made so far, in order
  pending,         \* the backend calls visit has yet to make, in order
  ctxs,            \* the Ctx of every visit that has not returned, outermost first
  cell_backends,   \* the sub-backends handed out so far: the cell and the calls received
  cell_pending,    \* the backend calls the nested visit has yet to make
  \* ---- the predicates of a Line (line.rs) ----
  lnLine,          \* the tokens of the line a predicate is applied to
  lnRest,          \* the lines of the block after it
  lnCalls          \* the predicates applied so far, each with its result

evalVars == <<anchors, evalStack, resolving_xref, calls, resolved, evalState>>
lexVars == <<idx, next_idx, source_stack, sources, tmp_buf, trace, pushedAt, overwritten>>

inlVars == <<input, block, frames, ctxSubs, status, result, returns>>

urlVars == <<urlLine0, urlLine, urlInlines, urlPc>>

\* the variables of the parts added to the three above
walkVars == <<doc, backend, pending, ctxs, cell_backends, cell_pending>>
lnVars == <<lnLine, lnRest, lnCalls>>
restVars == <<urlVars, walkVars, lnVars>>

vars == <<evalVars, lexVars, inlVars, restVars>>

\* the autolink arm's variables while another part runs
UrlIdle == urlLine0 = <<>> /\ urlLine = <<>> /\ urlInlines = <<>> /\ urlPc = "idle"

\* the walk's variables while another part runs
WalkIdle ==
  /\ doc = <<>> /\ backend = <<>> /\ pending = <<>>
  /\ ctxs = <<>> /\ cell_backends = <<>> /\ cell_pending = <<>>

LnIdle == lnLine = <<>> /\ lnRest = <<>> /\ lnCalls = {}

RestIdle == UrlIdle /\ WalkIdle /\ LnIdle

\* the inline parser's variables while another part runs
InlIdle ==
  /\ input = <<>> /\ block = <<>> /\ frames = <<>> /\ ctxSubs = <<>>
  /\ status = "idle" /\ result = <<>> /\ returns = <<>>

(***************************************************************************)
(*                              EVALUATOR                                  *)
(***************************************************************************)

\* ---- bounds ----
MaxText == 2       \* longest reftext inline sequence enumerated

\* ---- data ----
AnchorIds == {"a", "b"}          \* ids present in the anchor registry
MissingId == "z"                 \* an id that is never registered

None == [some |-> FALSE, nodes |-> <<>>]
Some(ns) == [some |-> TRUE, nodes |-> ns]

TextNode == [k |-> "Text", target |-> "", linktext |-> None]
XrefNode(t, lt) == [k |-> "Xref", target |-> t, linktext |-> lt]

\* inline nodes that occur inside reftext / title / linktext
Leaves == {TextNode} \cup {XrefNode(t, None) : t \in AnchorIds}

SeqsUpTo(S, n) == UNION {[1..m -> S] : m \in 0..n}

RefTexts == {None} \cup {Some(s) : s \in SeqsUpTo(Leaves, MaxText)}
Titles == {<<>>, <<TextNode>>, <<XrefNode("b", None)>>}
LinkTexts == {None, Some(<<>>), Some(<<TextNode>>), Some(<<XrefNode("b", None)>>),
              Some(<<XrefNode(MissingId, None)>>)}
DocXrefs == {XrefNode(t, lt) : t \in {"a", MissingId}, lt \in LinkTexts}

\* ---- backend calls ----
Call(op, t) == [op |-> op, target |-> t]

\* ---- eval_inline, Macro(Xref) arm: which text is evaluated ----
\* anchor.reftext.as_ref().unwrap_or(linktext.as_ref().unwrap_or(&anchor.title))
AnchorText(anchor, linktext) ==
  IF anchor.reftext.some THEN [src |-> "reftext", nodes |-> anchor.reftext.nodes]
  ELSE IF linktext.some THEN [src |-> "linktext", nodes |-> linktext.nodes]
  ELSE [src |-> "title", nodes |-> anchor.title]

\* A plausible slip: the final fallback evaluates the (absent) link text as
\* an empty list instead of calling visit_missing_xref.
XrefTextNoFallback(old, xr) ==
  IF old THEN [src |-> "guard", nodes |-> <<>>]
  ELSE IF xr.target \in DOMAIN anchors
          /\ AnchorText(anchors[xr.target], xr.linktext).nodes # <<>>
       THEN AnchorText(anchors[xr.target], xr.linktext)
  ELSE [src |-> "linktext", nodes |-> xr.linktext.nodes]

\* The if / else-if chain of the arm; old is the value returned by
\* resolving_xref.replace(true).
XrefText(old, xr) ==
  IF old THEN [src |-> "guard", nodes |-> <<>>]
  ELSE IF xr.target \in DOMAIN anchors
          /\ AnchorText(anchors[xr.target], xr.linktext).nodes # <<>>
       THEN AnchorText(anchors[xr.target], xr.linktext)
  ELSE IF xr.linktext.some THEN [src |-> "linktext", nodes |-> xr.linktext.nodes]
  ELSE [src |-> "missing", nodes |-> <<>>]

\* ---- the call stack ----
Frame(ns, xr) == [nodes |-> ns, i |-> 1, xref |-> xr]
Top == evalStack[Len(evalStack)]
AtNode == evalState = "running" /\ Top.i <= Len(Top.nodes)
CurNode == Top.nodes[Top.i]
Advance(stack) == [stack EXCEPT ![Len(stack)].i = @ + 1]

\* The same node list is already being iterated for the same target further
\* down the stack.  Every frame of a link text starts in the same state
\* (resolving_xref = TRUE, index 0) and eval_inline is deterministic, so the
\* inner call repeats the outer one and the recursion never returns.
Recurs(xr, ns) ==
  \E j \in 2..Len(evalStack) :
     evalStack[j].xref.target = xr.target /\ evalStack[j].nodes = ns

Decision(xr, old, choice) ==
  [xr |-> xr, nested |-> Len(evalStack) > 1, old |-> old,
   src |-> choice.src, nodes |-> choice.nodes, at |-> Len(calls) + 1]

\* the lexer's variables while the evaluator runs
LexIdle ==
  /\ idx = 0 /\ next_idx = -1 /\ source_stack = <<>> /\ sources = <<>>
  /\ tmp_buf = [some |-> FALSE] /\ trace = <<>> /\ pushedAt = <<>> /\ overwritten = {}

EvalInit ==
  /\ LexIdle
  /\ InlIdle
  /\ RestIdle
  /\ anchors \in [AnchorIds -> [reftext : RefTexts, title : Titles]]
  /\ anchors["b"].title = <<>>
  /\ \E xr \in DocXrefs : evalStack = <<Frame(<<xr>>, TextNode)>>
  /\ resolving_xref = FALSE
  /\ calls = <<>>
  /\ resolved = <<>>
  /\ evalState = "running"

\* Text(text) => backend.visit_inline_text(text)
EvalText ==
  /\ AtNode /\ CurNode.k = "Text"
  /\ calls' = Append(calls, Call("visit_inline_text", ""))
  /\ evalStack' = Advance(evalStack)
  /\ UNCHANGED <<anchors, resolving_xref, resolved, evalState, lexVars, inlVars, restVars>>

\* Xref arm, branches that make no recursive call: the guard was already set
\* (first branch) or nothing is left to show (last branch).  Both call
\* visit_missing_xref, reset the guard and exit.
EvalXrefMissing ==
  /\ AtNode /\ CurNode.k = "Xref"
  /\ LET xr == CurNode
         choice == XrefText(resolving_xref, xr)
     IN /\ choice.src \in {"guard", "missing"}
        /\ calls' = calls \o <<Call("enter_xref", xr.target),
                               Call("visit_missing_xref", xr.target),
                               Call("exit_xref", xr.target)>>
        /\ resolved' = Append(resolved, Decision(xr, resolving_xref, choice))
  /\ resolving_xref' = FALSE
  /\ evalStack' = Advance(evalStack)
  /\ UNCHANGED <<anchors, evalState, lexVars, inlVars, restVars>>

\* Xref arm, branches that evaluate a node list (the anchor's text or the
\* xref's own link text): the guard is set and eval_inline is called for
\* each node of the list.
EvalXrefEnter ==
  /\ AtNode /\ CurNode.k = "Xref"
  /\ LET xr == CurNode
         choice == XrefText(resolving_xref, xr)
     IN /\ choice.src \in {"reftext", "linktext", "title"}
        /\ calls' = Append(calls, Call("enter_xref", xr.target))
        /\ resolved' = Append(resolved, Decision(xr, resolving_xref, choice))
        /\ IF Recurs(xr, choice.nodes)
           THEN /\ evalState' = "diverged"
                /\ evalStack' = evalStack
           ELSE /\ evalState' = evalState
                /\ evalStack' = Append(evalStack, Frame(choice.nodes, xr))
  /\ resolving_xref' = TRUE
  /\ UNCHANGED <<anchors, lexVars, inlVars, restVars>>

\* The node list of an xref is finished: ctx.resolving_xref.replace(false);
\* backend.exit_xref(..); the caller goes on with its next node.
EvalXrefExit ==
  /\ evalState = "running"
  /\ Len(evalStack) > 1
  /\ Top.i > Len(Top.nodes)
  /\ calls' = Append(calls, Call("exit_xref", Top.xref.target))
  /\ resolving_xref' = FALSE
  /\ evalStack' = Advance(SubSeq(evalStack, 1, Len(evalStack) - 1))
  /\ UNCHANGED <<anchors, resolved, evalState, lexVars, inlVars, restVars>>

\* the outermost node list is finished
EvalDone ==
  /\ evalState = "running"
  /\ Len(evalStack) = 1
  /\ Top.i > Len(Top.nodes)
  /\ evalState' = "done"
  /\ UNCHANGED <<anchors, evalStack, resolving_xref, calls, resolved, lexVars, inlVars, restVars>>

EvalNext ==
  \/ EvalText
  \/ EvalXrefMissing
  \/ EvalXrefEnter
  \/ EvalXrefExit
  \/ EvalDone

EvalSpec == EvalInit /\ [][EvalNext]_vars

(***************************************************************************)
(*                       EVALUATOR: the claims                             *)
(***************************************************************************)

Range(s) == {s[j] : j \in DOMAIN s}

\* C1: evaluating an Xref node with eval_inline terminates, for every
\* document and anchor registry, also when reftext or title inlines contain
\* xrefs that point at each other or at themselves.  Stated on finite runs:
\* the evaluation never re-enters a node list it is already iterating.
C1_XrefEvalTerminates == evalState # "diverged"

\* C2: while the link text of an xref is being evaluated, every xref met
\* inside it is rendered with visit_missing_xref and none has its own text
\* evaluated: the resolving_xref guard is true whenever a node of that text
\* is about to be evaluated.
C2_GuardHeldInsideXref ==
  /\ (AtNode /\ Len(evalStack) > 1) => resolving_xref
  /\ \A d \in Range(resolved) : d.nested => d.src \in {"guard", "missing"}

\* the first non-empty of reftext, link text, title (<<>> if there is none)
FirstNonEmpty(anchor, linktext) ==
  IF anchor.reftext.some /\ anchor.reftext.nodes # <<>> THEN anchor.reftext.nodes
  ELSE IF linktext.some /\ linktext.nodes # <<>> THEN linktext.nodes
  ELSE anchor.title

\* C7: for an xref whose target is in the registry and that is not nested
\* in another xref, the evaluated link text is the first non-empty one of
\* the anchor's reftext, the xref's link text and the anchor's title, and
\* visit_missing_xref is called only when all three are absent or empty.
C7_FirstNonEmptyText ==
  \A d \in Range(resolved) :
    (~d.nested /\ d.xr.target \in DOMAIN anchors) =>
      LET want == FirstNonEmpty(anchors[d.xr.target], d.xr.linktext)
      IN IF want # <<>>
         THEN d.src \in {"reftext", "linktext", "title"} /\ d.nodes = want
         ELSE d.nodes = <<>>

\* visit_missing_xref is the only call between the enter_xref and the
\* exit_xref of the xref that decision d is about
MissingOnce(d) ==
  /\ d.at + 2 <= Len(calls)
  /\ calls[d.at] = Call("enter_xref", d.xr.target)
  /\ calls[d.at + 1] = Call("visit_missing_xref", d.xr.target)
  /\ calls[d.at + 2] = Call("exit_xref", d.xr.target)

\* C8 as stated: an xref whose target is not in the registry is always
\* rendered through visit_missing_xref, with or without explicit link
\* text, exactly once between enter_xref and exit_xref.
C8_UnknownAlwaysMissing ==
  \A d \in Range(resolved) :
    d.xr.target \notin DOMAIN anchors => MissingOnce(d)

\* C8 amended: an xref whose target is not in the registry is rendered
\* through visit_missing_xref, exactly once between enter_xref and
\* exit_xref, when it carries no explicit link text or is met while the
\* guard is set; with explicit link text and the guard clear, the link text
\* is evaluated instead.
C8_UnknownMissingUnlessLinktext ==
  \A d \in Range(resolved) :
    d.xr.target \notin DOMAIN anchors =>
      IF d.old \/ ~d.xr.linktext.some
      THEN MissingOnce(d)
      ELSE d.src = "linktext" /\ d.nodes = d.xr.linktext.nodes
           /\ calls[d.at] = Call("enter_xref", d.xr.target)
           /\ (d.at < Len(calls) => calls[d.at + 1].op # "visit_missing_xref")

\* an unknown target without link text and one with link text have both
\* been evaluated to the end
C8_Witness ==
  /\ evalState = "done"
  /\ \E d \in Range(resolved) :
       d.xr.target \notin DOMAIN anchors /\ ~d.xr.linktext.some /\ d.src = "missing"

(***************************************************************************)
(*                              ROOT LEXER                                 *)
(***************************************************************************)
\* A source is a SourceLexer reduced to what the root lexer uses of it: the
\* number of tokens it holds (len), how many have been read (pos), its offset
\* and max_include_depth fields, and the positions that hold a newline
\* (newlines).  One token stands for one byte.  Source indices are 0-based as
\* in the code.

\* ---- bounds ----
MaxOps == 8        \* calls made on the lexer in one run

\* ---- data ----
NoIdx == -1                       \* next_idx = None
PrimaryLens == {0, 2}             \* tokens in the primary document
PushLens == {2}                   \* tokens in a pushed source (never 0: push_source
                                  \* appends a newline to a source that lacks one)
TmpLens == {0, 2}                 \* tokens in a tmp buffer (set_tmp_buf("") has none)

NoDepth == -1                     \* max_include_depth = None
NoTmp == [some |-> FALSE]
SourceLexer(n, d, nl) ==
  [len |-> n, pos |-> 0, offset |-> 0, max_include_depth |-> d, newlines |-> nl]
\* a source of n tokens that ends its only line with a newline
Source(n) == SourceLexer(n, NoDepth, {n - 1} \ {-1})
Src(L, i) == L.sources[i + 1]
Lexer == [idx |-> idx, next_idx |-> next_idx, source_stack |-> source_stack,
          sources |-> sources, tmp_buf |-> tmp_buf]

\* SourceLocation
Loc(start, end, depth) == [start |-> start, end |-> end, include_depth |-> depth]
\* the location a SourceLexer gives the token it reads at position at
LexedLoc(at) == Loc(at, at + 1, 0)
\* SourceLocation::offset
OffsetLoc(loc, n) == [loc EXCEPT !.start = @ + n, !.end = @ + n]

\* BufLoc
Repeat(loc) == [repeat |-> TRUE, loc |-> loc, offset |-> 0]
Offset(n) == [repeat |-> FALSE, loc |-> Loc(0, 0, 0), offset |-> n]

\* a source token as the SourceLexer made it, the assignment
\* token.loc.include_depth = self.idx left out
SrcTokenAsLexed(i, at) ==
  [kind |-> "Tok", tmp |-> 0, src |-> i, at |-> at, loc |-> LexedLoc(at)]

\* tokens: where a token was read from (tmp, src, at) and its location; a
\* source token gets token.loc.include_depth = self.idx
SrcToken(i, at) ==
  [kind |-> "Tok", tmp |-> 0, src |-> i, at |-> at,
   loc |-> [LexedLoc(at) EXCEPT !.include_depth = i]]
\* next_token, the match on buf_loc with Repeat handled as Offset
BufTokenOffsetOnly(b, at, buf_loc) ==
  [kind |-> "Tok", tmp |-> b, src |-> NoIdx, at |-> at,
   loc |-> OffsetLoc(LexedLoc(at), buf_loc.offset)]

\* next_token, the match on buf_loc
BufToken(b, at, buf_loc) ==
  [kind |-> "Tok", tmp |-> b, src |-> NoIdx, at |-> at,
   loc |-> IF buf_loc.repeat THEN buf_loc.loc ELSE OffsetLoc(LexedLoc(at), buf_loc.offset)]
TmpToken(b, at) == BufToken(b, at, Offset(0))
EofToken == [kind |-> "Eof", tmp |-> 0, src |-> NoIdx, at |-> 0, loc |-> Loc(0, 0, 0)]
PanicToken == [kind |-> "Panic", tmp |-> 0, src |-> NoIdx, at |-> 0, loc |-> Loc(0, 0, 0)]
\* self.token(TokenKind::Eof, "", self.loc())
EofTokenAt(pos) == [EofToken EXCEPT !.loc = Loc(pos, pos, 0)]

\* SourceLexer::is_eof
SrcIsEof(src) == src.pos >= src.len

\* fn maybe_advance_source, with the push of self.idx left out
MaybeAdvanceNoPush(L) ==
  IF L.next_idx # NoIdx
  THEN [L EXCEPT !.idx = L.next_idx, !.next_idx = NoIdx]
  ELSE L

\* fn maybe_advance_source
MaybeAdvanceSource(L) ==
  IF L.next_idx # NoIdx
  THEN [L EXCEPT !.source_stack = Append(L.source_stack, L.idx),
                 !.idx = L.next_idx,
                 !.next_idx = NoIdx]
  ELSE L

\* next_token, the match on self.sources[self.idx].next_token(), with the
\* assignment self.idx = prev_idx left out
RECURSIVE NextFromSourcesKeepIdx(_)
NextFromSourcesKeepIdx(L) ==
  IF L.idx + 1 \notin DOMAIN L.sources THEN [lexer |-> L, tok |-> PanicToken]
  ELSE IF ~SrcIsEof(Src(L, L.idx))
  THEN [lexer |-> [L EXCEPT !.sources[L.idx + 1].pos = @ + 1],
        tok |-> SrcToken(L.idx, Src(L, L.idx).pos)]
  ELSE IF L.source_stack = <<>>
  THEN [lexer |-> L, tok |-> EofTokenAt(Src(L, L.idx).pos)]
  ELSE NextFromSourcesKeepIdx(
         [L EXCEPT !.source_stack = SubSeq(@, 1, Len(@) - 1)])

\* next_token, the match on self.sources[self.idx].next_token(): a token of
\* the active source, or pop source_stack and try again, or Eof.  Indexing
\* self.sources out of range panics.
RECURSIVE NextFromSources(_)
NextFromSources(L) ==
  IF L.idx + 1 \notin DOMAIN L.sources THEN [lexer |-> L, tok |-> PanicToken]
  ELSE IF ~SrcIsEof(Src(L, L.idx))
  THEN [lexer |-> [L EXCEPT !.sources[L.idx + 1].pos = @ + 1],
        tok |-> SrcToken(L.idx, Src(L, L.idx).pos)]
  ELSE IF L.source_stack = <<>>
  THEN [lexer |-> L, tok |-> EofTokenAt(Src(L, L.idx).pos)]
  ELSE NextFromSources(
         [L EXCEPT !.idx = L.source_stack[Len(L.source_stack)],
                   !.source_stack = SubSeq(@, 1, Len(@) - 1)])

\* fn next_token
NextTokenOf(L) ==
  IF L.tmp_buf.some /\ L.tmp_buf.pos < L.tmp_buf.len
  THEN LET t == L.tmp_buf
           read == [t EXCEPT !.pos = @ + 1]
       IN [lexer |-> [L EXCEPT !.tmp_buf = IF read.pos >= read.len THEN NoTmp ELSE read],
           tok |-> BufToken(t.id, t.pos, t.buf_loc)]
  ELSE NextFromSources(MaybeAdvanceSource(L))

\* the tmp buffer, the source next_token reads from (the active one once
\* maybe_advance_source has run) and every stacked source are exhausted
AllExhausted(L) ==
  LET A == MaybeAdvanceSource(L)
  IN /\ ~(A.tmp_buf.some /\ A.tmp_buf.pos < A.tmp_buf.len)
     /\ SrcIsEof(Src(A, A.idx))
     /\ \A k \in DOMAIN A.source_stack : SrcIsEof(Src(A, A.source_stack[k]))

\* the evaluator's variables while the lexer runs
EvalIdle ==
  /\ anchors = <<>> /\ evalStack = <<>> /\ resolving_xref = FALSE
  /\ calls = <<>> /\ resolved = <<>> /\ evalState = "idle"

\* RootLexer::new / from_str / from_byte_slice
LexInit ==
  /\ EvalIdle
  /\ InlIdle
  /\ RestIdle
  /\ idx = 0
  /\ next_idx = NoIdx
  /\ source_stack = <<>>
  /\ \E n \in PrimaryLens : sources = <<Source(n)>>
  /\ tmp_buf = NoTmp
  /\ trace = <<>>
  /\ pushedAt = <<[pusher |-> NoIdx, pos |-> 0]>>
  /\ overwritten = {}

TmpsSet == Cardinality({j \in DOMAIN trace : trace[j].op = "set_tmp_buf"})

\* one call made on the lexer: the operation, its argument or the id of what
\* it made, the token it returned, whether everything was exhausted, and the
\* active source when it was made
Event(op, id, tok, exh) ==
  [op |-> op, id |-> id, tok |-> tok, exh |-> exh, active |-> idx, buf_loc |-> Offset(0)]

\* fn push_source, for a source of n tokens with newlines at nl
PushSource(n, max_include_depth, nl) ==
  /\ sources' = Append(sources, SourceLexer(n, max_include_depth, nl))
  /\ next_idx' = Len(sources)
  /\ trace' = Append(trace, Event("push_source", Len(sources), EofToken, FALSE))
  /\ pushedAt' = Append(pushedAt, [pusher |-> idx, pos |-> Src(Lexer, idx).pos])
  /\ overwritten' = IF next_idx # NoIdx THEN overwritten \cup {next_idx}
                    ELSE overwritten
  /\ UNCHANGED <<idx, source_stack, tmp_buf, evalVars, inlVars, restVars>>

\* fn push_source, max_include_depth None
LexPushSource ==
  /\ Len(trace) < MaxOps
  /\ \E n \in PushLens : PushSource(n, NoDepth, {n - 1})

\* fn set_tmp_buf, for a string of n tokens
SetTmpBuf(n, loc) ==
  /\ tmp_buf' = [some |-> TRUE, id |-> TmpsSet + 1, len |-> n, pos |-> 0, buf_loc |-> loc]
  /\ trace' = Append(trace, [Event("set_tmp_buf", TmpsSet + 1,
                                    [EofToken EXCEPT !.at = n], FALSE)
                                EXCEPT !.buf_loc = loc])
  /\ UNCHANGED <<idx, next_idx, source_stack, sources, pushedAt, overwritten, evalVars, inlVars, restVars>>

\* fn set_tmp_buf, BufLoc::Offset(0)
LexSetTmpBuf ==
  /\ Len(trace) < MaxOps
  /\ \E n \in TmpLens : SetTmpBuf(n, Offset(0))

\* the lexer becomes L
LexBecomes(L) ==
  /\ idx' = L.idx
  /\ next_idx' = L.next_idx
  /\ source_stack' = L.source_stack
  /\ sources' = L.sources
  /\ tmp_buf' = L.tmp_buf

\* fn next_token
NextToken ==
  /\ LET r == NextTokenOf(Lexer)
     IN /\ LexBecomes(r.lexer)
        /\ trace' = Append(trace, Event("next_token", 0, r.tok, AllExhausted(Lexer)))
  /\ UNCHANGED <<pushedAt, overwritten, evalVars, inlVars, restVars>>

LexNextToken ==
  /\ Len(trace) < MaxOps
  /\ NextToken

\* ---- skip_byte and consume_empty_lines ----

\* skip_byte after maybe_advance_source: skip a byte of the active source, or
\* pop source_stack and try again
RECURSIVE SkipFromSources(_)
SkipFromSources(L) ==
  IF ~SrcIsEof(Src(L, L.idx))
  THEN [L EXCEPT !.sources[L.idx + 1].pos = @ + 1]
  ELSE IF L.source_stack = <<>> THEN L
  ELSE SkipFromSources(
         [L EXCEPT !.idx = L.source_stack[Len(L.source_stack)],
                   !.source_stack = SubSeq(@, 1, Len(@) - 1)])

\* fn skip_byte, with the call of maybe_advance_source left out
SkipByteNoAdvance(L) ==
  IF L.tmp_buf.some
  THEN LET read == [L.tmp_buf EXCEPT !.pos = @ + 1]
       IN [L EXCEPT !.tmp_buf = IF read.pos >= read.len THEN NoTmp ELSE read]
  ELSE SkipFromSources(L)

\* fn skip_byte
SkipByteOf(L) ==
  IF L.tmp_buf.some
  THEN LET read == [L.tmp_buf EXCEPT !.pos = @ + 1]
       IN [L EXCEPT !.tmp_buf = IF read.pos >= read.len THEN NoTmp ELSE read]
  ELSE SkipFromSources(MaybeAdvanceSource(L))

\* SourceLexer::consume_empty_lines: the read position after the newlines
\* at it
RECURSIVE AfterEmptyLines(_, _)
AfterEmptyLines(src, at) ==
  IF at < src.len /\ at \in src.newlines THEN AfterEmptyLines(src, at + 1) ELSE at

\* consume_empty_lines after maybe_advance_source
RECURSIVE ConsumeFromSources(_)
ConsumeFromSources(L) ==
  LET A == [L EXCEPT !.sources[L.idx + 1].pos = AfterEmptyLines(Src(L, L.idx), @)]
  IN IF SrcIsEof(Src(A, A.idx)) /\ A.source_stack # <<>>
     THEN ConsumeFromSources(
            [A EXCEPT !.idx = A.source_stack[Len(A.source_stack)],
                      !.source_stack = SubSeq(@, 1, Len(@) - 1)])
     ELSE A

\* fn consume_empty_lines
ConsumeEmptyLinesOf(L) == ConsumeFromSources(MaybeAdvanceSource(L))

\* ---- the advance specification: every call that can activate a source ----
MaxCalls == 5      \* calls made on the lexer in one run

\* a source: two tokens, the last a newline, the first a newline or not
PushNewlines == {{1}, {0, 1}}
\* the locations a caller hands to set_tmp_buf
BufLocs == {Repeat(Loc(7, 9, 1)), Offset(3)}

AdvInit ==
  /\ EvalIdle
  /\ InlIdle
  /\ RestIdle
  /\ idx = 0
  /\ next_idx = NoIdx
  /\ source_stack = <<>>
  /\ \E nl \in PushNewlines \cup {{}} :
       sources = <<SourceLexer(IF nl = {} THEN 0 ELSE 2, NoDepth, nl)>>
  /\ tmp_buf = NoTmp
  /\ trace = <<>>
  /\ pushedAt = <<[pusher |-> NoIdx, pos |-> 0]>>
  /\ overwritten = {}

AdvPushSource ==
  /\ Len(trace) < MaxCalls
  /\ \E nl \in PushNewlines : PushSource(2, NoDepth, nl)

AdvSetTmpBuf ==
  /\ Len(trace) < MaxCalls
  /\ \E n \in TmpLens, loc \in BufLocs : SetTmpBuf(n, loc)

AdvNextToken ==
  /\ Len(trace) < MaxCalls
  /\ NextToken

AdvSkipByte ==
  /\ Len(trace) < MaxCalls
  /\ LexBecomes(SkipByteOf(Lexer))
  /\ trace' = Append(trace, Event("skip_byte", 0, EofToken, FALSE))
  /\ UNCHANGED <<pushedAt, overwritten, evalVars, inlVars, restVars>>

AdvConsumeEmptyLines ==
  /\ Len(trace) < MaxCalls
  /\ LexBecomes(ConsumeEmptyLinesOf(Lexer))
  /\ trace' = Append(trace, Event("consume_empty_lines", 0, EofToken, FALSE))
  /\ UNCHANGED <<pushedAt, overwritten, evalVars, inlVars, restVars>>

AdvNext ==
  \/ AdvPushSource
  \/ AdvSetTmpBuf
  \/ AdvNextToken
  \/ AdvSkipByte
  \/ AdvConsumeEmptyLines

AdvanceSpec == AdvInit /\ [][AdvNext]_vars

\* ---- claims about activating a pushed source ----

\* this step is a call of op
Called(op) == Len(trace') = Len(trace) + 1 /\ trace'[Len(trace')].op = op
\* the calls that run maybe_advance_source
AdvanceOps == {"next_token", "skip_byte", "consume_empty_lines"}
CalledAdvance == \E op \in AdvanceOps : Called(op)
\* the call is answered from the tmp buffer and returns before
\* maybe_advance_source
ServedByTmpBuf ==
  /\ tmp_buf.some
  /\ \/ Called("skip_byte")
     \/ Called("next_token") /\ tmp_buf.pos < tmp_buf.len
\* push_source changes neither idx, nor source_stack, nor any read position,
\* and idx changes in no call but next_token, skip_byte, consume_empty_lines
PushSourceFrame ==
  /\ Called("push_source") =>
        /\ idx' = idx
        /\ source_stack' = source_stack
        /\ \A i \in DOMAIN sources : sources'[i].pos = sources[i].pos
        /\ next_idx' = Len(sources)
  /\ idx' # idx => CalledAdvance
\* the pending source is made the active one by this step (and may already
\* be read out and popped again when the step ends)
ActivatesPending ==
  /\ next_idx' = NoIdx
  /\ idx' = next_idx \/ SrcIsEof(sources'[next_idx + 1])

LexNext ==
  \/ LexPushSource
  \/ LexSetTmpBuf
  \/ LexNextToken

LexSpec == LexInit /\ [][LexNext]_vars

\* ---- claims about the root lexer ----
NextEvents == {j \in DOMAIN trace : trace[j].op = "next_token"}
SourceEvents == {j \in NextEvents : trace[j].tok.kind = "Tok" /\ trace[j].tok.tmp = 0}
PushEvents == {j \in DOMAIN trace : trace[j].op = "push_source"}
SetEvents == {j \in DOMAIN trace : trace[j].op = "set_tmp_buf"}
SrcLen(s) == sources[s + 1].len
Pusher(s) == pushedAt[s + 1].pusher
PushPos(s) == pushedAt[s + 1].pos
\* pushed sources that a next_token call followed
Activated == {s \in 1..(Len(sources) - 1) : s \notin overwritten /\ s # next_idx}
ReturnedBefore(t, j) == \E h \in NextEvents : h < j /\ trace[h].tok = t

C4_TmpBufLosesNothing ==
  \A j \in SetEvents : \A a \in 0..(trace[j].tok.at - 1) :
     \/ ReturnedBefore(TmpToken(trace[j].id, a), Len(trace) + 1)
     \/ /\ tmp_buf.some
        /\ tmp_buf.id = trace[j].id
        /\ a >= tmp_buf.pos

\* C5: next_token always returns a token and never indexes a source that does
\* not exist; it returns Eof exactly when the tmp buffer, the active source and
\* every stacked source are exhausted; and after an Eof every later call
\* returns Eof until push_source or set_tmp_buf is called.
C5_NextTokenTotalEofStable ==
  /\ idx + 1 \in DOMAIN sources
  /\ \A k \in DOMAIN source_stack : source_stack[k] + 1 \in DOMAIN sources
  /\ \A j \in NextEvents :
       /\ trace[j].tok.kind \in {"Tok", "Eof"}
       /\ (trace[j].tok.kind = "Eof") <=> trace[j].exh
       /\ trace[j].tok.kind = "Eof" =>
            \A h \in NextEvents :
               (h > j /\ \A m \in (j + 1)..h : m \in NextEvents)
                 => trace[h].tok.kind = "Eof"

\* a pushed source is read out, Eof is returned, and the next call returns Eof
C5_Witness ==
  \E j \in NextEvents :
     /\ j + 1 \in NextEvents
     /\ trace[j].tok.kind = "Eof"
     /\ trace[j + 1].tok.kind = "Eof"
     /\ \E h \in SourceEvents : h < j /\ trace[h].tok.src >= 1

(***************************************************************************)
(*                             INLINE PARSER                               *)
(***************************************************************************)
\* A token is {kind, lexeme}; a line is a sequence of tokens; a block is a
\* sequence of lines.  Text is kept as the sequence of the lexemes pushed.

\* ---- bounds ----
MaxParts == 4      \* phrases an input block is put together from

\* ---- data ----
Tok(kind, lexeme) == [kind |-> kind, lexeme |-> lexeme]
Word == Tok("Word", "x")
Plus == Tok("Plus", "+")
Backtick == Tok("Backtick", "bt")   \* lexeme: one backtick
Underscore == Tok("Underscore", "_")
LessThan == Tok("LessThan", "<")
Newline == Tok("Newline", "\n")
ImageMacro == <<Tok("MacroName", "image:"), Word, Tok("OpenBracket", "["), Tok("CloseBracket", "]")>>
MenuMacro == <<Tok("MacroName", "menu:"), Word, Tok("OpenBracket", "["), Tok("CloseBracket", "]")>>
Phrases == {<<Word>>, <<Plus>>, <<Plus, Plus>>, <<Plus, Plus, Plus>>,
            <<Backtick, Plus>>, <<Plus, Backtick>>, <<Underscore>>,
            <<LessThan>>, <<Newline>>, ImageMacro, MenuMacro}

RECURSIVE Flatten(_)
Flatten(parts) == IF parts = <<>> THEN <<>> ELSE Head(parts) \o Flatten(Tail(parts))

\* the lines of a token sequence: a Newline token ends a line
RECURSIVE SplitLines(_, _)
SplitLines(toks, cur) ==
  IF toks = <<>> THEN <<cur>>
  ELSE IF Head(toks).kind = "Newline" THEN <<cur>> \o SplitLines(Tail(toks), <<>>)
  ELSE SplitLines(Tail(toks), Append(cur, Head(toks)))

\* contiguous lines hold no empty line
Blocks ==
  {<<>>} \cup
  {b \in {SplitLines(Flatten(parts), <<>>) :
            parts \in UNION {[1..n -> Phrases] : n \in 1..MaxParts}} :
     \A i \in DOMAIN b : b[i] # <<>>}

\* struct Substitutions: six flags
NoSubs ==
  [special_chars |-> FALSE, attr_refs |-> FALSE, char_replacement |-> FALSE,
   macros |-> FALSE, post_replacement |-> FALSE, inline_formatting |-> FALSE]
AllSubs ==
  [special_chars |-> TRUE, attr_refs |-> TRUE, char_replacement |-> TRUE,
   macros |-> TRUE, post_replacement |-> TRUE, inline_formatting |-> TRUE]
\* "v": verbatim = only special chars
VerbatimSubs == [NoSubs EXCEPT !.special_chars = TRUE]
EntrySubs == {AllSubs, VerbatimSubs}

\* an inline node: Text carries text, a span carries kids
Inl(k, text, kids) == [k |-> k, text |-> text, kids |-> kids]

\* ---- Line (line.rs) ----
CurrentIs(line, kind) == line # <<>> /\ line[1].kind = kind

\* Option<&Token>::is_not: true of None
NthIsNot(line, n, kind) == n + 1 \notin DOMAIN line \/ line[n + 1].kind # kind

\* fn has_seq_at (offset 0-based)
HasSeqAt(line, specs, offset) ==
  /\ specs # <<>>
  /\ Len(line) >= offset + Len(specs)
  /\ \A i \in DOMAIN specs : line[offset + i].kind = specs[i]

\* fn starts_with_seq
StartsWithSeq(line, specs) == HasSeqAt(line, specs, 0)

\* fn index_of_seq: the first index the sequence is found at, -1 for None
IndexOfSeq(line, specs) ==
  LET found == {i \in 0..(Len(line) - 1) : HasSeqAt(line, specs, i)}
  IN IF found = {} THEN -1
     ELSE CHOOSE i \in found : \A h \in found : i <= h

\* fn contains_seq
ContainsSeq(line, specs) == IndexOfSeq(line, specs) # -1

\* fn first_nonescaped / contains_nonescaped
ContainsNonescaped(line, kind) ==
  \E i \in DOMAIN line :
     line[i].kind = kind /\ (i = 1 \/ line[i - 1].kind # "Backslash")

\* fn is_continuous_thru: kind is found before any Whitespace
IsContinuousThru(line, kind) ==
  \E i \in DOMAIN line :
     /\ line[i].kind = kind
     /\ \A h \in 1..(i - 1) : line[h].kind \notin {kind, "Whitespace"}

\* fn continues_inline_macro
ContinuesInlineMacro(line) ==
  /\ ~CurrentIs(line, "Colon")
  /\ IsContinuousThru(line, "OpenBracket")
  /\ ContainsNonescaped(line, "CloseBracket")

\* fn terminates_constrained_in, -1 for None
TerminatesConstrainedIn(line, stop_tokens) ==
  LET n == IndexOfSeq(line, stop_tokens)
  IN IF n = 0 THEN -1
     ELSE IF n > 0 /\ NthIsNot(line, n + 1, "Word") THEN n
     ELSE -1

\* fn terminates_constrained
TerminatesConstrained(line, stop_tokens) == TerminatesConstrainedIn(line, stop_tokens) # -1

\* fn discard
RECURSIVE Discard(_, _)
Discard(line, n) == IF n = 0 \/ line = <<>> THEN line ELSE Discard(Tail(line), n - 1)

\* fn consume_to_string_until, then discard_assert(OpenBracket): the line
\* after the macro target and its `[`
RECURSIVE ConsumeMacroTarget(_)
ConsumeMacroTarget(line) ==
  IF line = <<>> THEN <<>>
  ELSE IF Head(line).kind = "OpenBracket" THEN Tail(line)
  ELSE ConsumeMacroTarget(Tail(line))

\* Parser::parse_attr_list: the line after the closing `]`
RECURSIVE AfterAttrList(_)
AfterAttrList(line) ==
  IF line = <<>> THEN <<>>
  ELSE IF Head(line).kind = "CloseBracket" THEN Tail(line)
  ELSE AfterAttrList(Tail(line))

\* ---- ContiguousLines (contiguous_lines.rs) ----
\* fn contains_seq
LinesContainSeq(lines, kinds) == \E i \in DOMAIN lines : ContainsSeq(lines[i], kinds)

\* fn terminates_constrained
LinesTerminateConstrained(lines, stop_tokens) ==
  \E i \in DOMAIN lines : TerminatesConstrained(lines[i], stop_tokens)

\* Block::restore
Restore(lines, line) == <<line>> \o lines

\* ---- parse_inlines.rs helpers ----
\* fn contains_seq
ContainsSeqIn(seq, line, lines) == ContainsSeq(line, seq) \/ LinesContainSeq(lines, seq)

\* fn starts_constrained
StartsConstrained(stop_tokens, token, line, lines) ==
  /\ token.kind = stop_tokens[Len(stop_tokens)]
  /\ (TerminatesConstrained(line, stop_tokens) \/ LinesTerminateConstrained(lines, stop_tokens))

\* fn starts_unconstrained
StartsUnconstrained(kind, token, line, lines) ==
  /\ token.kind = kind
  /\ CurrentIs(line, kind)
  /\ ContainsSeqIn(<<kind, kind>>, line, lines)

\* Text::commit_inlines with every text pushed, empty or not
CommitInlinesAlways(text, inlines) == Append(inlines, Inl("Text", text, <<>>))

\* Text::commit_inlines: the text, when not empty, is appended to a trailing
\* Text node or pushed as a new one
CommitInlines(text, inlines) ==
  IF text = <<>> THEN inlines
  ELSE IF inlines # <<>> /\ inlines[Len(inlines)].k = "Text"
  THEN [inlines EXCEPT ![Len(inlines)].text = @ \o text]
  ELSE Append(inlines, Inl("Text", text, <<>>))

\* ---- parse_inlines_until as a machine ----
\* A frame is one call of parse_inlines_until: its stop_tokens, the value of
\* self.ctx.subs it saved at entry (subs), its inlines and text accumulator,
\* the line it is working on, where it is (pc), and the arm that is waiting
\* for a nested call to return (wait).
NoWait == [arm |-> "none", wrap |-> ""]
InlFrame(stop, subs) ==
  [pc |-> "while", stop |-> stop, subs |-> subs, inlines |-> <<>>, text |-> <<>>,
   line |-> <<>>, wait |-> NoWait]
Machine ==
  [frames |-> frames, block |-> block, ctx |-> ctxSubs, status |-> status,
   result |-> result, returns |-> returns]
InlTop(M) == M.frames[Len(M.frames)]
\* one return of parse_inlines_until: n inlines returned to the arm that
\* wraps them in a wrap node ("" at top level)
ReturnRec(M, j, ok, n) ==
  [ok |-> ok, depth |-> j, stop |-> M.frames[j].stop, entry |-> M.frames[j].subs,
   ctx |-> M.ctx, n |-> n,
   wrap |-> IF j > 1 THEN M.frames[j - 1].wait.wrap ELSE ""]

\* Err(..)?: every active call returns the Err, nothing is restored
Fail(M) ==
  [M EXCEPT !.status = "err",
            !.returns = @ \o [h \in 1..Len(M.frames) |->
                                ReturnRec(M, Len(M.frames) + 1 - h, FALSE, 0)],
            !.frames = <<>>]

\* the caller's arm after the nested call returned Ok(inner), with the
\* assignment self.ctx.subs = subs left out
ResumeNoRestore(c, inner, M) ==
  IF c.wait.arm = "litmono"
  THEN IF Len(inner) # 1 THEN [M EXCEPT !.status = "assert!"]
       ELSE IF inner[1].k # "Text" THEN [M EXCEPT !.status = "panic!"]
       ELSE [M EXCEPT !.frames = Append(SubSeq(@, 1, Len(@) - 2),
                [c EXCEPT !.inlines = Append(@, Inl("LitMono", inner[1].text, <<>>)),
                          !.pc = "while", !.wait = NoWait])]
  ELSE [M EXCEPT !.frames = Append(SubSeq(@, 1, Len(@) - 2),
                [c EXCEPT !.inlines = Append(@, Inl(c.wait.wrap, <<>>, inner)),
                          !.pc = "while", !.wait = NoWait])]

\* the caller's arm after the nested call returned Ok(inner): the pass-through
\* arms restore self.ctx.subs, the literal mono arm checks inner, every arm
\* pushes its node and breaks to the next line
Resume(c, inner, M) ==
  LET R == [M EXCEPT !.ctx = IF c.wait.arm \in {"litmono", "pass3", "pass"}
                              THEN c.subs ELSE @]
  IN IF c.wait.arm = "litmono"
     THEN IF Len(inner) # 1 THEN [R EXCEPT !.status = "assert!"]
          ELSE IF inner[1].k # "Text" THEN [R EXCEPT !.status = "panic!"]
          ELSE [R EXCEPT !.frames = Append(SubSeq(@, 1, Len(@) - 2),
                   [c EXCEPT !.inlines = Append(@, Inl("LitMono", inner[1].text, <<>>)),
                             !.pc = "while", !.wait = NoWait])]
     ELSE [R EXCEPT !.frames = Append(SubSeq(@, 1, Len(@) - 2),
                   [c EXCEPT !.inlines = Append(@, Inl(c.wait.wrap, <<>>, inner)),
                             !.pc = "while", !.wait = NoWait])]

\* return Ok(inlines) of the top frame: to parse_inlines, or into the arm of
\* the calling frame
Ret(M, inlines) ==
  LET n == Len(M.frames)
      R == [M EXCEPT !.returns = Append(@, ReturnRec(M, n, TRUE, Len(inlines)))]
  IN IF n = 1
     THEN [R EXCEPT !.status = "ok", !.result = inlines, !.frames = <<>>]
     ELSE Resume(M.frames[n - 1], inlines, R)

\* parse_inlines_until(block, stop) called from an arm: the calling frame f
\* waits, the new frame saves ctx.subs; an empty block returns at once
Enter(M, f, lines, ctx, stop, wait) ==
  LET C == [M EXCEPT !.frames = Append(
                         Append(SubSeq(@, 1, Len(@) - 1), [f EXCEPT !.wait = wait]),
                         InlFrame(stop, ctx)),
                     !.block = lines,
                     !.ctx = ctx]
  IN IF lines = <<>> THEN Ret(C, <<>>) ELSE C

\* the formatting node of a delimiter token
WrapOf(kind) ==
  CASE kind = "Underscore" -> "Italic"
    [] kind = "Star" -> "Bold"
    [] kind = "Backtick" -> "Mono"
    [] kind = "Hash" -> "Highlight"
    [] kind = "Caret" -> "Superscript"
    [] kind = "Tilde" -> "Subscript"
    [] OTHER -> "InlinePassthrough"

\* the arm of `match token.kind` that takes the token, in source order; line
\* is the rest of the line after the token, subs the frame's saved subs
Arm(token, line, lines, subs) ==
  LET k == token.kind
      fmt == subs.inline_formatting
  IN IF k = "MacroName" /\ subs.macros /\ ContinuesInlineMacro(line) THEN "macro"
     ELSE IF k \in {"Underscore", "Star"} /\ fmt /\ StartsConstrained(<<k>>, token, line, lines)
     THEN "constrained"
     ELSE IF k \in {"Underscore", "Star"} /\ fmt /\ StartsUnconstrained(k, token, line, lines)
     THEN "unconstrained"
     ELSE IF k = "Backtick" /\ fmt /\ CurrentIs(line, "Plus")
             /\ ContainsSeqIn(<<"Plus", "Backtick">>, line, lines)
     THEN "litmono"
     ELSE IF k \in {"Caret", "Tilde"} /\ fmt /\ IsContinuousThru(line, k) THEN "script"
     ELSE IF k = "Backtick" /\ fmt /\ StartsConstrained(<<k>>, token, line, lines)
     THEN "constrained"
     ELSE IF k = "Backtick" /\ fmt /\ StartsUnconstrained(k, token, line, lines)
     THEN "unconstrained"
     ELSE IF k = "Hash" /\ fmt /\ ContainsSeqIn(<<"Hash">>, line, lines) THEN "constrained"
     ELSE IF k = "Plus" /\ StartsWithSeq(line, <<"Plus", "Plus">>)
             /\ ContainsSeqIn(<<"Plus", "Plus", "Plus">>, line, lines)
     THEN "pass3"
     ELSE IF k = "Plus" /\ fmt /\ CurrentIs(line, "Plus")
             /\ StartsUnconstrained("Plus", token, line, lines)
     THEN "pass2"
     ELSE IF k = "Plus" /\ fmt /\ StartsConstrained(<<"Plus">>, token, line, lines)
     THEN "pass1"
     ELSE IF k \in {"Ampersand", "LessThan", "GreaterThan"} /\ subs.special_chars
     THEN "special"
     ELSE "text"

\* the macros the MacroName arm knows; any other name reaches `_ => todo!()`
KnownMacros == {"image:", "kbd:", "footnote:", "mailto:", "https:", "http:"}
AttrListMacros == {"image:", "mailto:"}

\* the machine after one step becomes the state
Becomes(M) ==
  /\ frames' = M.frames
  /\ block' = M.block
  /\ ctxSubs' = M.ctx
  /\ status' = M.status
  /\ result' = M.result
  /\ returns' = M.returns
  /\ UNCHANGED <<input, evalVars, lexVars, restVars>>

At(pc) == status = "run" /\ frames # <<>> /\ InlTop(Machine).pc = pc
AtToken ==
  /\ At("loop")
  /\ ~StartsWithSeq(InlTop(Machine).line, InlTop(Machine).stop)
  /\ InlTop(Machine).line # <<>>
CurArm ==
  LET f == InlTop(Machine)
  IN Arm(Head(f.line), Tail(f.line), block, f.subs)
WithTop(M, f) == [M EXCEPT !.frames[Len(M.frames)] = f]

InlInit ==
  /\ EvalIdle
  /\ LexIdle
  /\ RestIdle
  /\ input \in Blocks
  /\ block = input
  /\ frames = <<>>
  /\ ctxSubs \in EntrySubs
  /\ status = "init"
  /\ result = <<>>
  /\ returns = <<>>

\* fn parse_inlines: parse_inlines_until(&mut block, &[]) up to `let subs`
InlParse ==
  /\ status = "init"
  /\ LET C == [Machine EXCEPT !.frames = <<InlFrame(<<>>, ctxSubs)>>, !.status = "run"]
     IN Becomes(IF block = <<>> THEN Ret(C, <<>>) ELSE C)

\* while let Some(line) = block.consume_current(); after the last line
\* text.commit_inlines and Ok(inlines)
InlNextLine ==
  /\ At("while")
  /\ LET f == InlTop(Machine)
     IN Becomes(IF block = <<>>
                THEN Ret(Machine, CommitInlines(f.text, f.inlines))
                ELSE [WithTop(Machine, [f EXCEPT !.line = Head(block), !.pc = "loop"])
                        EXCEPT !.block = Tail(block)])

\* if line.starts_with_seq(stop_tokens) { .. return Ok(inlines) }
InlStop ==
  /\ At("loop")
  /\ StartsWithSeq(InlTop(Machine).line, InlTop(Machine).stop)
  /\ LET f == InlTop(Machine)
         rest == Discard(f.line, Len(f.stop))
     IN Becomes(Ret([Machine EXCEPT !.block = IF rest # <<>> THEN Restore(block, rest)
                                                ELSE block],
                    CommitInlines(f.text, f.inlines)))

\* let Some(token) = line.consume_current() else { .. break }
InlEndOfLine ==
  /\ At("loop")
  /\ ~StartsWithSeq(InlTop(Machine).line, InlTop(Machine).stop)
  /\ InlTop(Machine).line = <<>>
  /\ LET f == InlTop(Machine)
     IN Becomes(WithTop(Machine,
          IF block # <<>>
          THEN [f EXCEPT !.inlines = Append(CommitInlines(f.text, f.inlines),
                                            Inl("JoiningNewline", <<>>, <<>>)),
                         !.text = <<>>, !.pc = "while"]
          ELSE [f EXCEPT !.pc = "while"]))

\* the MacroName arm: image: and mailto: parse an attribute list, which may
\* fail; an unknown macro name reaches todo!()
InlMacro ==
  /\ AtToken
  /\ CurArm = "macro"
  /\ LET f == InlTop(Machine)
         token == Head(f.line)
         g == [f EXCEPT !.inlines = CommitInlines(f.text, f.inlines), !.text = <<>>]
     IN \/ /\ token.lexeme \in AttrListMacros
           /\ \E attrs_ok \in BOOLEAN :
                Becomes(IF attrs_ok
                        THEN WithTop(Machine,
                               [g EXCEPT !.inlines = Append(@, Inl("Macro", <<>>, <<>>)),
                                         !.line = AfterAttrList(ConsumeMacroTarget(Tail(f.line)))])
                        ELSE Fail(WithTop(Machine, g)))
        \/ /\ token.lexeme \notin KnownMacros
           /\ Becomes([WithTop(Machine, g) EXCEPT !.status = "todo!"])

\* the formatting arms: parse_constrained, parse_unconstrained, Caret, Tilde
InlSpan ==
  /\ AtToken
  /\ CurArm \in {"constrained", "unconstrained", "script"}
  /\ LET f == InlTop(Machine)
         k == Head(f.line).kind
         rest == IF CurArm = "unconstrained" THEN Discard(Tail(f.line), 1) ELSE Tail(f.line)
         stop == IF CurArm = "unconstrained" THEN <<k, k>> ELSE <<k>>
         g == [f EXCEPT !.inlines = CommitInlines(f.text, f.inlines), !.text = <<>>,
                        !.line = <<>>]
     IN Becomes(Enter(Machine, g, Restore(block, rest), ctxSubs, stop,
                      [arm |-> "span", wrap |-> WrapOf(k)]))

\* the pass-through arms: literal mono, +++, ++ and +
InlPass ==
  /\ AtToken
  /\ CurArm \in {"litmono", "pass3", "pass2", "pass1"}
  /\ LET f == InlTop(Machine)
         arm == CurArm
         rest == CASE arm = "pass3" -> Discard(Tail(f.line), 2)
                   [] arm = "pass1" -> Tail(f.line)
                   [] OTHER -> Discard(Tail(f.line), 1)
         stop == CASE arm = "litmono" -> <<"Plus", "Backtick">>
                   [] arm = "pass3" -> <<"Plus", "Plus", "Plus">>
                   [] arm = "pass2" -> <<"Plus", "Plus">>
                   [] OTHER -> <<"Plus">>
         ctx == IF arm = "pass3" THEN NoSubs
                ELSE [ctxSubs EXCEPT !.inline_formatting = FALSE]
         wait == CASE arm = "litmono" -> [arm |-> "litmono", wrap |-> "LitMono"]
                   [] arm = "pass3" -> [arm |-> "pass3", wrap |-> "InlinePassthrough"]
                   [] OTHER -> [arm |-> "pass", wrap |-> "InlinePassthrough"]
         g == [f EXCEPT !.inlines = CommitInlines(f.text, f.inlines), !.text = <<>>,
                        !.line = <<>>]
     IN Becomes(Enter(Machine, g, Restore(block, rest), ctx, stop, wait))

\* the special-character arm and the default arm text.push_token
InlPlain ==
  /\ AtToken
  /\ CurArm \in {"special", "text"}
  /\ LET f == InlTop(Machine)
         token == Head(f.line)
     IN Becomes(WithTop(Machine,
          IF CurArm = "special"
          THEN [f EXCEPT !.inlines = Append(CommitInlines(f.text, f.inlines),
                                            Inl("SpecialChar", <<token.lexeme>>, <<>>)),
                         !.text = <<>>, !.line = Tail(f.line)]
          ELSE [f EXCEPT !.text = Append(@, token.lexeme), !.line = Tail(f.line)]))

InlNext ==
  \/ InlParse
  \/ InlNextLine
  \/ InlStop
  \/ InlEndOfLine
  \/ InlMacro
  \/ InlSpan
  \/ InlPass
  \/ InlPlain

InlineSpec == InlInit /\ [][InlNext]_vars

\* ---- claims about the inline parser ----

\* C6: parse_inlines never panics: no token sequence reaches todo!(), assert!
\* or panic!; an unknown macro name or a literal mono region that is not one
\* plain text run ends as text or as an Err.
C6_NeverPanics == status \notin {"todo!", "assert!", "panic!"}

\* C9: whenever parse_inlines_until returns Ok, self.ctx.subs is what it was
\* at entry; inside a +++ pass-through all six flags are off, inside the other
\* pass-throughs (+, ++, literal mono) only inline_formatting is switched off
\* with respect to the enclosing call; and the policy in force while a call
\* runs is the one it saved at entry.
C9_SubsRestoredOnOk ==
  /\ \A r \in Range(returns) : r.ok => r.ctx = r.entry
  /\ \A j \in 2..Len(frames) :
       LET c == frames[j - 1]
       IN /\ c.wait.arm = "pass3" => frames[j].subs = NoSubs
          /\ c.wait.arm \in {"pass", "litmono"} =>
               frames[j].subs = [c.subs EXCEPT !.inline_formatting = FALSE]
  /\ (status = "run" /\ frames # <<>>) => ctxSubs = InlTop(Machine).subs

\* a +++ pass-through inside a formatting span has returned Ok, so has the
\* whole parse, and the policy is again the full one it started with
C9_Witness ==
  /\ status = "ok"
  /\ ctxSubs = AllSubs
  /\ \E r \in Range(returns) :
       /\ r.ok
       /\ r.depth >= 3
       /\ r.stop = <<"Plus", "Plus", "Plus">>
       /\ r.entry = NoSubs
  /\ \E r \in Range(returns) : r.ok /\ r.depth = 1 /\ r.entry = AllSubs

RECURSIVE WellFormed(_)
WellFormed(inlines) ==
  /\ \A i \in DOMAIN inlines :
       /\ inlines[i].k = "Text" => inlines[i].text # <<>>
       /\ WellFormed(inlines[i].kids)
  /\ \A i \in 1..(Len(inlines) - 1) :
       ~(inlines[i].k = "Text" /\ inlines[i + 1].k = "Text")

\* C10: in the inline sequence parse_inlines returns, and in the sequence of
\* every call still running, at top level and inside every nested span, no
\* Text node is empty and no two Text nodes are adjacent.
C10_NoEmptyNoAdjacentText ==
  /\ WellFormed(result)
  /\ \A j \in DOMAIN frames : WellFormed(frames[j].inlines)

\* a parse that returned text at top level and text inside a nested span
C10_Witness ==
  /\ status = "ok"
  /\ \E i \in DOMAIN result : result[i].k = "Text"
  /\ \E i \in DOMAIN result :
       /\ result[i].k \in {"Italic", "InlinePassthrough"}
       /\ \E h \in DOMAIN result[i].kids : result[i].kids[h].k = "Text"

\* the formatting spans
FormattingSpans == {"Italic", "Bold", "Mono", "Highlight", "TextSpan", "InlinePassthrough"}

\* C11: no formatting span (Italic, Bold, Mono, Highlight, TextSpan,
\* InlinePassthrough) opened by a single delimiter has zero children: the
\* nested call for a one-token stop sequence never returns an empty sequence
\* to a formatting arm, also when the closing delimiter the lookahead found
\* is on a later line.
C11_NoEmptyConstrainedSpan ==
  \A r \in Range(returns) :
     (r.ok /\ Len(r.stop) = 1 /\ r.wrap \in FormattingSpans) => r.n > 0

\* C12: at the end of a line with further lines remaining, a JoiningNewline
\* node is emitted only by a call with non-empty stop_tokens (inside an open
\* span); the top-level call (empty stop_tokens) keeps the line break in the
\* text accumulator and never holds a JoiningNewline node.
C12_JoiningNewlineOnlyInsideSpan ==
  \A i \in 1..Len(frames) :
     frames[i].stop = <<>> =>
        \A k \in 1..Len(frames[i].inlines) : frames[i].inlines[k].k # "JoiningNewline"

(***************************************************************************)
(* Autolinks: Line::consume_url (line.rs) and the arm of                   *)
(* parse_inlines_until that calls it for a bare url (parse_inlines.rs)     *)
(***************************************************************************)

\* the longest line after the scheme token and its `//host`
MaxUrl == 3

Dots == Tok("Dots", ".")
Comma == Tok("Comma", ",")
SemiColon == Tok("SemiColon", ";")
Colon == Tok("Colon", ":")
Whitespace == Tok("Whitespace", " ")
GreaterThan == Tok("GreaterThan", ">")
OpenBracket == Tok("OpenBracket", "[")
UrlScheme == Tok("MacroName", "https:")
UrlHost == Tok("Word", "//x")

UrlTokens == {Word, Dots, Comma, SemiColon, Colon, Whitespace, GreaterThan, OpenBracket}

\* for token in self.iter(): the tokens before the first Whitespace,
\* GreaterThan or OpenBracket
RECURSIVE NumTokens(_)
NumTokens(line) ==
  IF line = <<>> \/ Head(line).kind \in {"Whitespace", "GreaterThan", "OpenBracket"}
  THEN 0
  ELSE 1 + NumTokens(Tail(line))

\* the number of tokens consume_url takes: a last token Dots is left behind
UrlTake(line) ==
  LET num_tokens == NumTokens(line)
  IN IF num_tokens > 0 /\ line[num_tokens].kind = "Dots" THEN num_tokens - 1 ELSE num_tokens

Lexemes(toks) == [i \in DOMAIN toks |-> toks[i].lexeme]

\* Line::consume_url(Some(start)): the target string (as the lexemes pushed
\* onto it) and the line left
ConsumeUrl(start, line) ==
  [target |-> <<start.lexeme>> \o Lexemes(SubSeq(line, 1, UrlTake(line))),
   line |-> SubSeq(line, UrlTake(line) + 1, Len(line))]

UrlInit ==
  /\ EvalIdle
  /\ LexIdle
  /\ InlIdle
  /\ WalkIdle
  /\ LnIdle
  /\ urlLine0 \in {<<UrlHost>> \o s : s \in SeqsUpTo(UrlTokens, MaxUrl)}
  /\ urlLine = urlLine0
  /\ urlInlines = <<>>
  /\ urlPc = "scheme"

\* _ if subs.macros && token.is_url_scheme() && line.src.starts_with("//")
UrlAutolink ==
  /\ urlPc = "scheme"
  /\ LET r == ConsumeUrl(UrlScheme, urlLine)
     IN /\ urlInlines' = Append(urlInlines, [k |-> "Link", target |-> r.target])
        /\ urlLine' = r.line
  /\ urlPc' = "rest"
  /\ UNCHANGED <<urlLine0, evalVars, lexVars, inlVars, walkVars, lnVars>>

\* the tokens after the link, each taken by line.consume_current() and
\* pushed by its arm
UrlRestOfLine ==
  /\ urlPc = "rest"
  /\ urlLine # <<>>
  /\ urlInlines' = Append(urlInlines, [k |-> "Token", target |-> <<Head(urlLine).lexeme>>])
  /\ urlLine' = Tail(urlLine)
  /\ UNCHANGED <<urlLine0, urlPc, evalVars, lexVars, inlVars, walkVars, lnVars>>

UrlNext ==
  \/ UrlAutolink
  \/ UrlRestOfLine

UrlSpec == UrlInit /\ [][UrlNext]_vars

\* ---- claims about autolinks ----

TrailingPunctuation == {"Dots", "Comma", "SemiColon", "Colon"}

\* C13: when the last token of the url run (the token directly before
\* whitespace, `>`, `[` or the end of the line) is one of `.`, `,`, `;`, `:`,
\* consume_url leaves it out of the target, it stays in the line, and it is
\* the first thing emitted after the Link.
C13_TrailingPunctuationExcluded ==
  LET n == NumTokens(urlLine0)
  IN (urlPc = "rest" /\ urlLine0[n].kind \in TrailingPunctuation) =>
        /\ urlInlines[1].target = <<UrlScheme.lexeme>> \o Lexemes(SubSeq(urlLine0, 1, n - 1))
        /\ Len(urlInlines) = 1 => Head(urlLine) = urlLine0[n]
        /\ Len(urlInlines) > 1 => urlInlines[2].target = <<urlLine0[n].lexeme>>


(***************************************************************************)
(* Root lexer: token locations, offsets, include depths, line numbers      *)
(***************************************************************************)

\* C15: every non-Eof token next_token draws from a real source carries
\* loc.include_depth equal to the index in the source list of the source it
\* was lexed from (0 for the primary document), for any interleaving of
\* push_source and next_token.
C15_IncludeDepthIsSourceIndex ==
  \A j \in SourceEvents :
     LET tok == trace[j].tok
     IN /\ tok.src + 1 \in DOMAIN sources
        /\ tok.at < Src(Lexer, tok.src).pos
        /\ tok.loc.include_depth = tok.src
        /\ Pusher(tok.src) = NoIdx <=> tok.loc.include_depth = 0

\* a token of the second included source, read at nesting depth 1
C15_Witness ==
  /\ trace # <<>>
  /\ Len(trace) \in SourceEvents
  /\ trace[Len(trace)].tok.loc.include_depth = 2
  /\ source_stack = <<0>>
  /\ \E j \in SourceEvents : trace[j].tok.loc.include_depth = 0


\* the BufLoc handed to set_tmp_buf for buffer b
BufLocOf(b) == trace[CHOOSE j \in SetEvents : trace[j].id = b].buf_loc

\* C16: after set_tmp_buf(s, Repeat(loc)) every token next_token draws from
\* the tmp buffer has location exactly loc (start, end and include_depth), and
\* the first token drawn after the buffer is exhausted has its own source
\* location again: its position in its source and that source's index.
C16_RepeatLocThenOwnLoc ==
  \A j \in NextEvents :
     LET tok == trace[j].tok
     IN (tok.kind = "Tok" /\ tok.tmp > 0 /\ BufLocOf(tok.tmp).repeat) =>
           /\ tok.loc = BufLocOf(tok.tmp).loc
           /\ \A h \in NextEvents :
                (/\ h > j
                 /\ \A m \in (j + 1)..(h - 1) : m \notin NextEvents /\ m \notin SetEvents
                 /\ trace[h].tok.tmp # tok.tmp)
                => \/ /\ trace[h].tok.kind = "Tok"
                      /\ trace[h].tok.tmp = 0
                      /\ trace[h].tok.loc =
                           Loc(trace[h].tok.at, trace[h].tok.at + 1, trace[h].tok.src)
                   \/ /\ trace[h].tok.kind = "Eof"
                      /\ trace[h].tok.loc.start = trace[h].tok.loc.end

\* both tokens of a Repeat buffer were drawn with the repeated location and
\* the next token came from the primary source with its own location
C16_Witness ==
  /\ Len(trace) = 4
  /\ trace[1].op = "set_tmp_buf" /\ trace[1].buf_loc.repeat
  /\ trace[2].tok.tmp = 1 /\ trace[2].tok.loc = trace[1].buf_loc.loc
  /\ trace[3].tok.tmp = 1 /\ trace[3].tok.loc = trace[1].buf_loc.loc
  /\ trace[4].tok = SrcToken(0, 0)
  /\ trace[4].tok.loc # trace[1].buf_loc.loc


\* ---- the query specification: offsets, include depths, line numbers ----

\* fn adjust_offset
AdjustOffsetOf(L, offset_adjustment) ==
  [L EXCEPT !.sources[L.idx + 1].offset = offset_adjustment]

\* fn max_include_depth: the fold over self.sources.iter().enumerate(), from
\* the k-th source on; [d, i] is Some((d, i)) and d = NoDepth is None
RECURSIVE FoldMaxIncludeDepth(_, _, _)
FoldMaxIncludeDepth(L, k, current) ==
  IF k > Len(L.sources) THEN current
  ELSE FoldMaxIncludeDepth(L, k + 1,
         IF L.sources[k].max_include_depth # NoDepth
         THEN [d |-> L.sources[k].max_include_depth, i |-> k - 1]
         ELSE current)
MaxIncludeDepth(L) == FoldMaxIncludeDepth(L, 1, [d |-> NoDepth, i |-> 0])

\* SourceLexer::line_number_with_offset: one more than the newlines before
\* the location
LineNumberIn(src, location) == 1 + Cardinality({p \in src.newlines : p < location})
\* fn line_number
LineNumber(L, location) == LineNumberIn(Src(L, L.idx), location)

\* the sources pushed: max_include_depth and newline positions of a source
\* of two tokens
PushChoices == {[d |-> NoDepth, nl |-> {1}], [d |-> 1, nl |-> {0, 1}], [d |-> 2, nl |-> {1}]}
OffsetAdjustments == {1, 2}

QryInit ==
  /\ EvalIdle
  /\ InlIdle
  /\ RestIdle
  /\ idx = 0
  /\ next_idx = NoIdx
  /\ source_stack = <<>>
  /\ \E nl \in PushNewlines : sources = <<SourceLexer(2, NoDepth, nl)>>
  /\ tmp_buf = NoTmp
  /\ trace = <<>>
  /\ pushedAt = <<[pusher |-> NoIdx, pos |-> 0]>>
  /\ overwritten = {}

QryPushSource ==
  /\ Len(trace) < MaxCalls
  /\ \E c \in PushChoices : PushSource(2, c.d, c.nl)

QryNextToken ==
  /\ Len(trace) < MaxCalls
  /\ NextToken

QryAdjustOffset ==
  /\ Len(trace) < MaxCalls
  /\ \E n \in OffsetAdjustments :
       /\ sources' = AdjustOffsetOf(Lexer, n).sources
       /\ trace' = Append(trace, Event("adjust_offset", n, EofToken, FALSE))
  /\ UNCHANGED <<idx, next_idx, source_stack, tmp_buf, pushedAt, overwritten,
                 evalVars, inlVars, restVars>>

\* a call of max_include_depth: the event holds the depth returned (id) and
\* the source index returned with it (tok.at)
QryMaxIncludeDepth ==
  /\ Len(trace) < MaxCalls
  /\ LET r == MaxIncludeDepth(Lexer)
     IN trace' = Append(trace, Event("max_include_depth", r.d,
                                     [EofToken EXCEPT !.at = r.i], FALSE))
  /\ UNCHANGED <<idx, next_idx, source_stack, sources, tmp_buf, pushedAt, overwritten,
                 evalVars, inlVars, restVars>>

\* a call of line_number(token.loc.start) for a token returned earlier: the
\* event holds the line number returned (id) and the token
QryLineNumber ==
  /\ Len(trace) < MaxCalls
  /\ \E j \in SourceEvents :
       trace' = Append(trace, Event("line_number", LineNumber(Lexer, trace[j].tok.loc.start),
                                    trace[j].tok, FALSE))
  /\ UNCHANGED <<idx, next_idx, source_stack, sources, tmp_buf, pushedAt, overwritten,
                 evalVars, inlVars, restVars>>

QryNext ==
  \/ QryPushSource
  \/ QryNextToken
  \/ QryAdjustOffset
  \/ QryMaxIncludeDepth
  \/ QryLineNumber

QuerySpec == QryInit /\ [][QryNext]_vars

\* ---- claims about offsets, include depths and line numbers ----

RECURSIVE SumOf(_, _)
SumOf(f, S) == IF S = {} THEN 0 ELSE LET x == CHOOSE y \in S : TRUE
                                     IN f[x] + SumOf(f, S \ {x})
\* the adjust_offset calls made while source i was the active one
AdjustEvents(i) == {j \in DOMAIN trace : trace[j].op = "adjust_offset" /\ trace[j].active = i}

\* C17: adjust_offset(n) adds n to the offset of the active source: the
\* offset of every source is its initial offset (0) plus the sum of the
\* adjustments made while it was the active source, so adjust_offset(a) then
\* adjust_offset(b) gives the previous offset plus a + b, and no call changes
\* the offset of another source.
C17_AdjustOffsetAdds ==
  \A i \in 0..(Len(sources) - 1) :
     Src(Lexer, i).offset = SumOf([j \in DOMAIN trace |-> trace[j].id], AdjustEvents(i))

\* the sources on the source stack: the active one and its pushers
OnStack == {idx} \cup Range(source_stack)
StackDepths == {Src(Lexer, i).max_include_depth : i \in OnStack} \ {NoDepth}

\* C18: max_include_depth returns the numerically largest max_include_depth
\* among the sources on the source stack (the active source and its
\* pushers), whatever the push order, and None only if none records one.
C18_MaxIncludeDepthIsStackMax ==
  (trace # <<>> /\ trace[Len(trace)].op = "max_include_depth") =>
     LET d == trace[Len(trace)].id
     IN IF StackDepths = {} THEN d = NoDepth
        ELSE d \in StackDepths /\ \A e \in StackDepths : e <= d

\* C19: the line number reported for a location is computed in the source
\* the location's include_depth names, whichever source is active at the
\* call.
C19_LineNumberInSourceOfLocation ==
  \A j \in DOMAIN trace :
     trace[j].op = "line_number" =>
        trace[j].id = LineNumberIn(Src(Lexer, trace[j].tok.loc.include_depth),
                                   trace[j].tok.loc.start)


(***************************************************************************)
(* The document walk: visit, eval_doc_content, eval_section, eval_block    *)
(* and eval_toc_at (eval.rs)                                               *)
(***************************************************************************)
\* A backend call is enter_X, exit_X or visit_X for a node; a node is named
\* by its path from the document (the positions of its ancestors and its
\* own among their children).  Inline content is plain text.

MaxBlocks == 2     \* blocks at the top level of a document, sections of a document
MaxKids == 1       \* blocks inside a compound block or a section

BEnter(x, node) == [op |-> "enter", x |-> x, node |-> node]
BExit(x, node) == [op |-> "exit", x |-> x, node |-> node]
BVisit(x, node) == [op |-> "visit", x |-> x, node |-> node]

\* ---- the AST ----
\* the Content variant a block of a context is parsed with when none is named
ContentOf(context) ==
  CASE context \in {"Open"} -> "Compound"
    [] context = "Section" -> "Section"
    [] context = "DocumentAttributeDecl" -> "DocumentAttribute"
    [] context = "Table" -> "Table"
    [] context \in {"OrderedList", "UnorderedList", "DescriptionList", "CalloutList"} -> "List"
    [] context = "QuotedParagraph" -> "QuotedParagraph"
    [] context \in {"Comment", "None", "TableOfContents", "Image", "DiscreteHeading",
                    "ThematicBreak", "PageBreak"} -> "Empty"
    [] OTHER -> "Simple"
\* Block {context, content, meta.title}: tag names the Content variant
BlockOf(context, title, tag, content) ==
  [context |-> context, title |-> title, tag |-> tag, content |-> content]
Block(context, title, content) == BlockOf(context, title, ContentOf(context), content)
\* blocks without child blocks: a titled paragraph, an attribute
\* declaration, a comment
Paragraph == Block("Paragraph", TRUE, <<TextNode>>)
AttributeDecl == Block("DocumentAttributeDecl", FALSE, <<>>)
LeafBlocks == {Paragraph, AttributeDecl, Block("Comment", FALSE, <<>>)}
\* a section inside a section, holding a declaration
SubSection == Block("Section", FALSE, <<AttributeDecl>>)
SectionBlocks ==
  {Block("Section", FALSE, bs) : bs \in SeqsUpTo({AttributeDecl, SubSection}, MaxKids)}
OpenBlocks ==
  {Block("Open", FALSE, bs) : bs \in SeqsUpTo({Paragraph, AttributeDecl}, MaxKids)}
\* the blocks of a document without sections
Blocks0 == LeafBlocks \cup OpenBlocks
NoPreamble == [some |-> FALSE, blocks |-> <<>>]
DocContents ==
  {[sectioned |-> FALSE, blocks |-> bs, preamble |-> NoPreamble, sections |-> <<>>] :
      bs \in SeqsUpTo(Blocks0, MaxBlocks)}
  \cup
  {[sectioned |-> TRUE, blocks |-> <<>>, preamble |-> p, sections |-> ss] :
      p \in {NoPreamble} \cup {[some |-> TRUE, blocks |-> <<b>>] : b \in LeafBlocks},
      ss \in SeqsUpTo(SectionBlocks, MaxBlocks) \ {<<>>}}
\* Document.toc: Option<TableOfContents {position, nodes}>; a TocNode has a
\* title and child nodes
TocNode(children) == [title |-> <<TextNode>>, children |-> children]
NoToc == [some |-> FALSE, position |-> "Auto", nodes |-> <<>>]
Toc(position, nodes) == [some |-> TRUE, position |-> position, nodes |-> nodes]
\* a document with a title and a table of contents (position auto, one
\* node), or with neither
Documents ==
  {[title |-> h, toc |-> IF h THEN Toc("Auto", <<TocNode(<<>>)>>) ELSE NoToc,
    content |-> c] : h \in BOOLEAN, c \in DocContents}

\* ---- the calls ----
\* the todo!() of the fallback arm: the walk panics there
Todo(node) == [op |-> "panic", x |-> "todo", node |-> node]

\* fn eval_inline for a text node and for an xref; what the Xref arm does
\* between enter_xref and exit_xref depends on the guard and the anchors of
\* the visit's Ctx (see XrefBody)
EnterXref(xr, node) == [op |-> "enter", x |-> "xref", node |-> node, xr |-> xr]
EvalInline(inline, node) ==
  IF inline.k = "Xref" THEN <<EnterXref(inline, node), BExit("xref", node)>>
  ELSE <<BVisit("inline_text", node)>>

\* .iter().for_each(|node| eval_inline(node, ctx, backend))
RECURSIVE EvalInlinesFrom(_, _, _)
EvalInlinesFrom(nodes, node, i) ==
  IF i > Len(nodes) THEN <<>>
  ELSE EvalInline(nodes[i], node \o <<i>>) \o EvalInlinesFrom(nodes, node, i + 1)
EvalInlines(nodes, node) == EvalInlinesFrom(nodes, node, 1)

RECURSIVE EvalBlockOf(_, _, _), EvalBlocks(_, _, _, _), EvalTocLevel(_), EvalTocNodes(_, _)

\* struct Ctx, as visit constructs it
Ctx(d) == [doc |-> d, resolving_xref |-> FALSE]

\* fn eval_section
EvalSection(section, ctx, node) ==
  <<BEnter("section", node), BEnter("section_heading", node)>>
  \o EvalInlines(<<TextNode>>, node)
  \o <<BExit("section_heading", node)>>
  \o EvalBlocks(section.content, ctx, node, 1)
  \o <<BExit("section", node)>>

\* fn eval_toc_level
EvalTocNodes(nodes, i) ==
  IF i > Len(nodes) THEN <<>>
  ELSE <<BEnter("toc_node", <<>>), BEnter("toc_content", <<>>)>>
       \o EvalInlines(nodes[i].title, <<>>)
       \o <<BExit("toc_content", <<>>)>>
       \o EvalTocLevel(nodes[i].children)
       \o <<BExit("toc_node", <<>>)>>
       \o EvalTocNodes(nodes, i + 1)
EvalTocLevel(nodes) ==
  IF nodes = <<>> THEN <<>>
  ELSE <<BEnter("toc_level", <<>>)>> \o EvalTocNodes(nodes, 1)
       \o <<BExit("toc_level", <<>>)>>

\* fn eval_toc_at without the test of the position
EvalTocAtAnyPosition(positions, ctx, node) ==
  LET toc == ctx.doc.toc
  IN IF ~toc.some THEN <<>>
     ELSE IF toc.nodes = <<>> THEN <<>>
     ELSE <<BEnter("toc", node)>> \o EvalTocLevel(toc.nodes) \o <<BExit("toc", node)>>

\* fn eval_toc_at; node is the place of the call site
EvalTocAt(positions, ctx, node) ==
  LET toc == ctx.doc.toc
  IN IF ~toc.some THEN <<>>
     ELSE IF toc.position \notin positions \/ toc.nodes = <<>> THEN <<>>
     ELSE <<BEnter("toc", node)>> \o EvalTocLevel(toc.nodes) \o <<BExit("toc", node)>>

\* ---- tables ----
\* CellContent: Default | Emphasis | Header | Monospace | Strong hold
\* paragraphs, Literal holds inline nodes, AsciiDoc holds a document
Cell(style, content) == [style |-> style, content |-> content, some |-> FALSE]
AsciiDocCell(document) == [style |-> "AsciiDoc", content |-> document, some |-> TRUE]
NoRow == [some |-> FALSE, cells |-> <<>>]
Row(cells) == [some |-> TRUE, cells |-> cells]
Table(header_row, rows, footer_row) ==
  [header_row |-> header_row, rows |-> rows, footer_row |-> footer_row]
\* TableSection, as the place of a section's rows in the table
Header == 1
Body == 2
Footer == 3

RECURSIVE EvalCellParagraphs(_, _, _), EvalCells(_, _, _), EvalRows(_, _, _)
EvalCellParagraphs(paragraphs, node, k) ==
  IF k > Len(paragraphs) THEN <<>>
  ELSE <<BEnter("cell_paragraph", node \o <<k>>)>>
       \o EvalInlines(paragraphs[k], node \o <<k>>)
       \o <<BExit("cell_paragraph", node \o <<k>>)>>
       \o EvalCellParagraphs(paragraphs, node, k + 1)

\* the match on cell.content in eval_table_row; for an AsciiDoc cell the
\* nested visit runs between the two calls (see CellEnter, CellReturn)
EvalCellContent(cell, node) ==
  CASE cell.style = "Literal" -> EvalInlines(cell.content, node)
    [] cell.style = "AsciiDoc" ->
         <<BVisit("asciidoc_table_cell_backend", node),
           BVisit("asciidoc_table_cell_result", node)>>
    [] OTHER -> EvalCellParagraphs(cell.content, node, 1)

EvalCells(cells, node, j) ==
  IF j > Len(cells) THEN <<>>
  ELSE <<BEnter("table_cell", node \o <<j>>)>>
       \o EvalCellContent(cells[j], node \o <<j>>)
       \o <<BExit("table_cell", node \o <<j>>)>>
       \o EvalCells(cells, node, j + 1)

\* fn eval_table_row
EvalTableRow(row, node) ==
  <<BEnter("table_row", node)>> \o EvalCells(row.cells, node, 1)
  \o <<BExit("table_row", node)>>

EvalRows(rows, node, i) ==
  IF i > Len(rows) THEN <<>>
  ELSE EvalTableRow(rows[i], node \o <<i>>) \o EvalRows(rows, node, i + 1)

\* the Table arm of eval_block; a row is node <<section, i>> of the table
EvalTable(table, node) ==
  <<BEnter("table", node)>>
  \o (IF table.header_row.some
      THEN <<BEnter("table_section", node \o <<Header>>)>>
           \o EvalTableRow(table.header_row, node \o <<Header, 1>>)
           \o <<BExit("table_section", node \o <<Header>>)>>
      ELSE <<>>)
  \o (IF table.rows # <<>>
      THEN <<BEnter("table_section", node \o <<Body>>)>>
           \o EvalRows(table.rows, node \o <<Body>>, 1)
           \o <<BExit("table_section", node \o <<Body>>)>>
      ELSE <<>>)
  \o (IF table.footer_row.some
      THEN <<BEnter("table_section", node \o <<Footer>>)>>
           \o EvalTableRow(table.footer_row, node \o <<Footer, 1>>)
           \o <<BExit("table_section", node \o <<Footer>>)>>
      ELSE <<>>)
  \o <<BExit("table", node)>>

\* ---- eval_block ----
\* the arms of the shape enter_X, enter_simple_block_content, the inline
\* children, exit_simple_block_content, exit_X
SimpleArm(x, b, node) ==
  <<BEnter(x, node), BEnter("simple_block_content", node)>>
  \o EvalInlines(b.content, node)
  \o <<BExit("simple_block_content", node), BExit(x, node)>>

\* the arms of the shape enter_X, enter_compound_block_content, the child
\* blocks, exit_compound_block_content, exit_X
CompoundArm(x, b, ctx, node) ==
  <<BEnter(x, node), BEnter("compound_block_content", node)>>
  \o EvalBlocks(b.content, ctx, node, 1)
  \o <<BExit("compound_block_content", node), BExit(x, node)>>

\* the Open arm issuing exit_compound_block_content before the child blocks
CompoundArmExitsEarly(x, b, ctx, node) ==
  <<BEnter(x, node), BEnter("compound_block_content", node),
    BExit("compound_block_content", node)>>
  \o EvalBlocks(b.content, ctx, node, 1)
  \o <<BExit(x, node)>>

\* the list arms: an item is [principle, blocks]; x names the two pairs of
\* calls made for an item
RECURSIVE EvalItems(_, _, _, _, _)
EvalItems(items, x, ctx, node, i) ==
  IF i > Len(items) THEN <<>>
  ELSE <<BEnter(x[1], node \o <<i>>)>>
       \o EvalInlines(items[i].principle, node \o <<i>>)
       \o <<BExit(x[1], node \o <<i>>), BEnter(x[2], node \o <<i>>)>>
       \o EvalBlocks(items[i].blocks, ctx, node \o <<i>>, 1)
       \o <<BExit(x[2], node \o <<i>>)>>
       \o EvalItems(items, x, ctx, node, i + 1)
ListArm(x, item, b, ctx, node) ==
  <<BEnter(x, node)>> \o EvalItems(b.content, item, ctx, node, 1) \o <<BExit(x, node)>>

Admonitions ==
  {"AdmonitionTip", "AdmonitionNote", "AdmonitionCaution", "AdmonitionWarning",
   "AdmonitionImportant"}
ListItem == <<"list_item_principal", "list_item_blocks">>

\* the title part of eval_block
EvalBlockTitle(b, node) ==
  IF b.title
  THEN <<BEnter("block_title", node)>> \o EvalInlines(<<TextNode>>, node)
       \o <<BExit("block_title", node)>>
  ELSE <<>>

\* match (block.context, &block.content), the arms in their order
EvalBlockMatch(b, ctx, node) ==
  LET c == b.context
      t == b.tag
  IN CASE c = "Paragraph" /\ t = "Simple" -> SimpleArm("paragraph_block", b, node)
       [] c = "Sidebar" /\ t = "Simple" -> SimpleArm("sidebar_block", b, node)
       [] c = "Listing" /\ t = "Simple" -> SimpleArm("listing_block", b, node)
       [] c = "Sidebar" /\ t = "Compound" -> CompoundArm("sidebar_block", b, ctx, node)
       [] c = "BlockQuote" /\ t = "Simple" -> SimpleArm("quote_block", b, node)
       [] c = "BlockQuote" /\ t = "Compound" -> CompoundArm("quote_block", b, ctx, node)
       [] c = "Verse" /\ t = "Simple" -> SimpleArm("verse_block", b, node)
       [] c = "QuotedParagraph" /\ t = "QuotedParagraph" ->
            <<BEnter("quoted_paragraph", node)>> \o EvalInlines(b.content, node)
            \o <<BExit("quoted_paragraph", node)>>
       [] c = "Open" /\ t = "Compound" -> CompoundArm("open_block", b, ctx, node)
       [] c = "Example" /\ t = "Compound" -> CompoundArm("example_block", b, ctx, node)
       [] c = "Example" /\ t = "Simple" -> SimpleArm("example_block", b, node)
       [] c \in Admonitions /\ t = "Simple" ->
            <<BEnter("admonition_block", node)>> \o EvalInlines(b.content, node)
            \o <<BExit("admonition_block", node)>>
       [] c = "Image" /\ t = "Empty" ->
            <<BEnter("image_block", node), BExit("image_block", node)>>
       [] c = "DocumentAttributeDecl" /\ t = "DocumentAttribute" ->
            <<BVisit("document_attribute_decl", node)>>
       [] c = "OrderedList" /\ t = "List" -> ListArm("ordered_list", ListItem, b, ctx, node)
       [] c = "UnorderedList" /\ t = "List" ->
            ListArm("unordered_list", ListItem, b, ctx, node)
       [] c = "DescriptionList" /\ t = "List" ->
            ListArm("description_list",
                    <<"description_list_term", "description_list_description">>,
                    b, ctx, node)
       [] c = "CalloutList" /\ t = "List" -> ListArm("callout_list", ListItem, b, ctx, node)
       [] c = "Section" /\ t = "Section" -> EvalSection(b, ctx, node)
       [] c = "Literal" /\ t = "Simple" -> SimpleArm("literal_block", b, node)
       [] c = "Passthrough" /\ t = "Simple" -> SimpleArm("passthrough_block", b, node)
       [] c = "Table" /\ t = "Table" -> EvalTable(b.content, node)
       [] c = "DiscreteHeading" /\ t = "Empty" ->
            <<BEnter("discrete_heading", node)>> \o EvalInlines(b.content, node)
            \o <<BExit("discrete_heading", node)>>
       [] c = "ThematicBreak" -> <<BVisit("thematic_break", node)>>
       [] c = "PageBreak" -> <<BVisit("page_break", node)>>
       [] c = "TableOfContents" -> EvalTocAt({"Macro"}, ctx, node)
       [] c = "Comment" -> <<>>
       [] OTHER -> <<Todo(node)>>

\* fn eval_block, with the Open arm issuing exit_compound_block_content
\* before the child blocks
EvalBlockExitsEarly(b, ctx, node) ==
  EvalBlockTitle(b, node)
  \o (IF b.context = "Open" /\ b.tag = "Compound"
      THEN CompoundArmExitsEarly("open_block", b, ctx, node)
      ELSE EvalBlockMatch(b, ctx, node))

\* fn eval_block
EvalBlockOf(b, ctx, node) == EvalBlockTitle(b, node) \o EvalBlockMatch(b, ctx, node)

\* blocks.iter().for_each(|b| eval_block(b, ctx, backend)), from the i-th on
EvalBlocks(blocks, ctx, node, i) ==
  IF i > Len(blocks) THEN <<>>
  ELSE EvalBlockOf(blocks[i], ctx, node \o <<i>>) \o EvalBlocks(blocks, ctx, node, i + 1)

\* fn eval_doc_content; the preamble is node <<0>>, section k is node <<k>>
EvalDocContent(ctx) ==
  LET d == ctx.doc
  IN <<BEnter("content", <<>>)>>
     \o (IF ~d.content.sectioned THEN EvalBlocks(d.content.blocks, ctx, <<>>, 1)
         ELSE (IF d.content.preamble.some
               THEN <<BEnter("preamble", <<0>>)>>
                    \o EvalBlocks(d.content.preamble.blocks, ctx, <<0>>, 1)
                    \o <<BExit("preamble", <<0>>)>>
                    \o EvalTocAt({"Preamble"}, ctx, <<0>>)
               ELSE <<>>)
              \o EvalBlocks(d.content.sections, ctx, <<>>, 1))
     \o <<BExit("content", <<>>)>>

\* fn visit: every backend call it makes, in order
VisitCalls(d) ==
  LET ctx == Ctx(d)
  IN <<BEnter("document", <<>>), BEnter("header", <<>>)>>
     \o (IF d.title
         THEN <<BEnter("document_title", <<>>)>> \o EvalInlines(<<TextNode>>, <<>>)
              \o <<BExit("document_title", <<>>)>>
         ELSE <<>>)
     \o <<BExit("header", <<>>)>>
     \o EvalTocAt({"Auto", "Left", "Right"}, ctx, <<>>)
     \o EvalDocContent(ctx)
     \o <<BEnter("footer", <<>>), BExit("footer", <<>>), BExit("document", <<>>)>>

WalkInit ==
  /\ EvalIdle
  /\ LexIdle
  /\ InlIdle
  /\ UrlIdle
  /\ LnIdle
  /\ doc \in Documents
  /\ backend = <<>>
  /\ pending = VisitCalls(doc)
  /\ ctxs = <<Ctx(doc)>>
  /\ cell_backends = <<>>
  /\ cell_pending = <<>>

\* visit makes its next backend call
WalkCall ==
  /\ pending # <<>>
  /\ backend' = Append(backend, Head(pending))
  /\ pending' = Tail(pending)
  /\ UNCHANGED <<doc, ctxs, cell_backends, cell_pending, evalVars, lexVars, inlVars, urlVars, lnVars>>

WalkNext == WalkCall

WalkSpec == WalkInit /\ [][WalkNext]_vars


\* ---- claims about the document walk ----

\* the enter calls not yet exited after the first n calls of cs, innermost
\* last; Unmatched when an exit did not match the innermost open enter
Unmatched == <<BVisit("unmatched", <<>>)>>
RECURSIVE OpenCalls(_, _)
OpenCalls(cs, n) ==
  IF n = 0 THEN <<>>
  ELSE LET st == OpenCalls(cs, n - 1)
           c == cs[n]
       IN IF st = Unmatched THEN Unmatched
          ELSE IF c.op = "enter" THEN Append(st, c)
          ELSE IF c.op = "visit" THEN st
          ELSE IF st # <<>> /\ st[Len(st)].x = c.x /\ st[Len(st)].node = c.node
          THEN SubSeq(st, 1, Len(st) - 1)
          ELSE Unmatched

\* document order of nodes: p is q or comes before it in pre-order
RECURSIVE PreOrderLeq(_, _)
PreOrderLeq(p, q) ==
  \/ p = <<>>
  \/ /\ q # <<>>
     /\ \/ p[1] < q[1]
        \/ p[1] = q[1] /\ PreOrderLeq(Tail(p), Tail(q))

\* the block at a path of the AST
NoBlock == Block("None", FALSE, <<>>)
RECURSIVE BlockIn(_, _)
BlockIn(blocks, path) ==
  IF path[1] \notin DOMAIN blocks THEN NoBlock
  ELSE IF Len(path) = 1 THEN blocks[path[1]]
  ELSE IF blocks[path[1]].context \in {"Open", "Section"}
  THEN BlockIn(blocks[path[1]].content, Tail(path))
  ELSE NoBlock
BlockAt(d, path) ==
  IF ~d.content.sectioned THEN BlockIn(d.content.blocks, path)
  ELSE IF path[1] = 0
  THEN IF Len(path) > 1 THEN BlockIn(d.content.preamble.blocks, Tail(path)) ELSE NoBlock
  ELSE BlockIn(d.content.sections, path)
Paths == SeqsUpTo(0..(MaxBlocks + MaxKids), 3) \ {<<>>}

\* the call that opens a block
FirstCall(b, node) ==
  CASE b.context = "Paragraph" -> BEnter("paragraph_block", node)
    [] b.context = "Open" -> BEnter("open_block", node)
    [] b.context = "Section" -> BEnter("section", node)
    [] b.context = "DocumentAttributeDecl" -> BVisit("document_attribute_decl", node)
    [] OTHER -> BVisit("none", node)

\* a call for a block (not for the document's own parts, not for an inline)
BlockCall(c) == c.node # <<>> /\ c.x # "inline_text" /\ c.x # "preamble"
WalkDone == doc # <<>> /\ pending = <<>>
Parent(node) == SubSeq(node, 1, Len(node) - 1)

CellParagraph == Block("Paragraph", FALSE, <<TextNode, XrefNode("a", None)>>)
CellAnchors == [a |-> [reftext |-> None, title |-> <<TextNode>>]]
OtherAnchors == [b |-> [reftext |-> None, title |-> <<TextNode>>]]
NestedDocument(as, bs) ==
  [title |-> FALSE, toc |-> NoToc, anchors |-> as,
   content |-> [sectioned |-> FALSE, blocks |-> bs, preamble |-> NoPreamble,
                sections |-> <<>>]]
NestedDocuments == {NestedDocument(as, <<CellParagraph>>) : as \in {OtherAnchors, CellAnchors}}
CellKinds ==
  {Cell("Default", <<<<TextNode>>>>)} \cup {AsciiDocCell(d) : d \in NestedDocuments}
Rows == {Row(cs) : cs \in SeqsUpTo(CellKinds, MaxBlocks) \ {<<>>}}
\* the header row, if any, holds a literal cell and a cell with an empty
\* document
Tables ==
  {Table(h, rs, NoRow) :
     h \in {NoRow, Row(<<Cell("Literal", <<TextNode>>),
                         AsciiDocCell(NestedDocument(OtherAnchors, <<>>))>>)},
     rs \in SeqsUpTo(Rows, MaxKids)}
\* the parent document: a table as its only block; it registers the anchor
\* "a" itself
CellDocuments ==
  {[title |-> FALSE, toc |-> NoToc, anchors |-> CellAnchors,
    content |-> [sectioned |-> FALSE, blocks |-> <<Block("Table", FALSE, t)>>,
                 preamble |-> NoPreamble, sections |-> <<>>]] : t \in Tables}

\* the cell at a node <<block, section, row, cell>> of a document
CellAt(d, node) ==
  LET table == d.content.blocks[node[1]].content
      row == IF node[2] = Header THEN table.header_row
             ELSE IF node[2] = Body THEN table.rows[node[3]]
             ELSE table.footer_row
  IN row.cells[node[4]]

\* ---- the Xref arm of eval_inline inside a visit ----
\* the Ctx that eval_inline is handed: the one of the innermost visit
\* running, with every Ctx of an enclosing visit below it
VisitCtxOutermost == IF ctxs = <<>> THEN 0 ELSE 1
VisitCtx == Len(ctxs)

\* what the arm does between enter_xref and the reset of the guard; old is
\* the value returned by resolving_xref.replace(true)
XrefBody(ctx, old, xr, node) ==
  IF old THEN <<BVisit("missing_xref", node)>>
  ELSE IF xr.target \in DOMAIN ctx.doc.anchors
          /\ AnchorText(ctx.doc.anchors[xr.target], xr.linktext).nodes # <<>>
       THEN EvalInlines(AnchorText(ctx.doc.anchors[xr.target], xr.linktext).nodes, node)
  ELSE IF xr.linktext.some THEN EvalInlines(xr.linktext.nodes, node)
  ELSE <<BVisit("missing_xref", node)>>

Received(c) ==
  [cell_backends EXCEPT ![Len(cell_backends)].calls = Append(@, c)]

CellInit ==
  /\ EvalIdle
  /\ LexIdle
  /\ InlIdle
  /\ UrlIdle
  /\ LnIdle
  /\ doc \in CellDocuments
  /\ backend = <<>>
  /\ pending = VisitCalls(doc)
  /\ ctxs = <<Ctx(doc)>>
  /\ cell_backends = <<>>
  /\ cell_pending = <<>>

\* the parent visit makes its next call on the parent backend
CellCall ==
  /\ Len(ctxs) = 1
  /\ pending # <<>>
  /\ Head(pending).x \notin {"asciidoc_table_cell_backend", "asciidoc_table_cell_result"}
  /\ backend' = Append(backend, Head(pending))
  /\ pending' = Tail(pending)
  /\ UNCHANGED <<doc, ctxs, cell_backends, cell_pending, evalVars, lexVars, inlVars, urlVars, lnVars>>

\* let mut cell_backend = backend.asciidoc_table_cell_backend();
\* visit(document, &mut cell_backend) up to the construction of its Ctx
CellEnter ==
  /\ Len(ctxs) = 1
  /\ pending # <<>>
  /\ Head(pending).x = "asciidoc_table_cell_backend"
  /\ LET node == Head(pending).node
         document == CellAt(doc, node).content
     IN /\ cell_backends' = Append(cell_backends, [cell |-> node, calls |-> <<>>])
        /\ ctxs' = Append(ctxs, Ctx(document))
        /\ cell_pending' = VisitCalls(document)
  /\ backend' = Append(backend, Head(pending))
  /\ pending' = Tail(pending)
  /\ UNCHANGED <<doc, evalVars, lexVars, inlVars, urlVars, lnVars>>

\* the nested visit makes its next call, other than for an xref, on the
\* sub-backend
CellNestedCall ==
  /\ Len(ctxs) = 2
  /\ cell_pending # <<>>
  /\ Head(cell_pending).x # "xref"
  /\ cell_backends' = Received(Head(cell_pending))
  /\ cell_pending' = Tail(cell_pending)
  /\ UNCHANGED <<doc, backend, pending, ctxs, evalVars, lexVars, inlVars, urlVars, lnVars>>

\* the Xref arm in the nested visit: enter_xref, resolving_xref.replace(true)
\* and the choice of what is evaluated
CellXrefEnter ==
  /\ Len(ctxs) = 2
  /\ cell_pending # <<>>
  /\ Head(cell_pending).x = "xref" /\ Head(cell_pending).op = "enter"
  /\ LET c == Head(cell_pending)
         ctx == ctxs[VisitCtx]
     IN /\ cell_backends' = Received(c)
        /\ ctxs' = [ctxs EXCEPT ![VisitCtx].resolving_xref = TRUE]
        /\ cell_pending' =
             XrefBody(ctx, ctx.resolving_xref, c.xr, c.node)
             \o Tail(cell_pending)
  /\ UNCHANGED <<doc, backend, pending, evalVars, lexVars, inlVars, urlVars, lnVars>>

\* ctx.resolving_xref.replace(false); backend.exit_xref(..)
CellXrefExit ==
  /\ Len(ctxs) = 2
  /\ cell_pending # <<>>
  /\ Head(cell_pending).x = "xref" /\ Head(cell_pending).op = "exit"
  /\ ctxs' = [ctxs EXCEPT ![VisitCtx].resolving_xref = FALSE]
  /\ cell_backends' = Received(Head(cell_pending))
  /\ cell_pending' = Tail(cell_pending)
  /\ UNCHANGED <<doc, backend, pending, evalVars, lexVars, inlVars, urlVars, lnVars>>

\* the nested visit has returned:
\* backend.visit_asciidoc_table_cell_result(cell_backend.into_result())
CellReturn ==
  /\ Len(ctxs) = 2
  /\ cell_pending = <<>>
  /\ Head(pending).x = "asciidoc_table_cell_result"
  /\ backend' = Append(backend,
        [op |-> "visit", x |-> "asciidoc_table_cell_result", node |-> Head(pending).node,
         result |-> cell_backends[Len(cell_backends)].calls])
  /\ pending' = Tail(pending)
  /\ ctxs' = SubSeq(ctxs, 1, 1)
  /\ UNCHANGED <<doc, cell_backends, cell_pending, evalVars, lexVars, inlVars, urlVars, lnVars>>

CellNext ==
  \/ CellCall
  \/ CellEnter
  \/ CellNestedCall
  \/ CellXrefEnter
  \/ CellXrefExit
  \/ CellReturn

CellSpec == CellInit /\ [][CellNext]_vars

\* ---- claims about AsciiDoc cells ----
\* the i-th call the parent backend received enters an AsciiDoc cell
AsciiDocCellAt(i) ==
  /\ backend[i].op = "enter" /\ backend[i].x = "table_cell"
  /\ CellAt(doc, backend[i].node).style = "AsciiDoc"
NestedDone(k) == k < Len(cell_backends) \/ Len(ctxs) = 1

\* C21: for a table cell of style asciidoc the parent backend receives only
\* enter_table_cell, asciidoc_table_cell_backend,
\* visit_asciidoc_table_cell_result (carrying the sub-backend's result) and
\* exit_table_cell, in that order; every call of the nested visit goes to a
\* sub-backend handed out for that cell alone, from enter_document to
\* exit_document; the nested visit has its own Ctx, holding the cell's
\* document and a guard that starts false, its xrefs are resolved against
\* that document's anchors, and the parent's guard does not change.
C21_NestedVisitIsolated ==
  LET n == Len(backend)
  IN /\ \A i \in 1..n :
          AsciiDocCellAt(i) =>
            LET node == backend[i].node
            IN /\ i + 1 <= n => backend[i + 1] = BVisit("asciidoc_table_cell_backend", node)
               /\ i + 2 <= n =>
                    /\ backend[i + 2].x = "asciidoc_table_cell_result"
                    /\ backend[i + 2].node = node
                    /\ \E k \in DOMAIN cell_backends :
                          /\ cell_backends[k].cell = node
                          /\ backend[i + 2].result = cell_backends[k].calls
               /\ i + 3 <= n => backend[i + 3] = BExit("table_cell", node)
     /\ \A i \in 2..n : backend[i] # BEnter("document", <<>>)
     /\ \A i \in 1..n : backend[i].x \notin {"paragraph_block", "xref", "missing_xref"}
     /\ Cardinality({i \in 1..n : backend[i].x = "asciidoc_table_cell_backend"})
          = Len(cell_backends)
     /\ \A k, l \in DOMAIN cell_backends :
          cell_backends[k].cell = cell_backends[l].cell => k = l
     /\ \A k \in DOMAIN cell_backends :
          LET cs == cell_backends[k].calls
              document == CellAt(doc, cell_backends[k].cell).content
          IN /\ cs # <<>> => cs[1] = BEnter("document", <<>>)
             /\ NestedDone(k) =>
                  /\ cs # <<>> /\ cs[Len(cs)] = BExit("document", <<>>)
                  /\ Cardinality({i \in DOMAIN cs : cs[i] = BEnter("paragraph_block", <<1>>)})
                       = Len(document.content.blocks)
             /\ \A i \in DOMAIN cs :
                  (cs[i].x = "xref" /\ cs[i].op = "enter" /\ i < Len(cs)) =>
                     (cs[i + 1].x = "missing_xref" <=> "a" \notin DOMAIN document.anchors)
     /\ ctxs # <<>> =>
          /\ ctxs[1] = Ctx(doc)
          /\ Len(ctxs) = 2 =>
               /\ ctxs[2].doc = CellAt(doc, cell_backends[Len(cell_backends)].cell).content
               /\ cell_backends[Len(cell_backends)].calls = <<>>
                    => ~ctxs[2].resolving_xref

\* the visit has returned for a table with two AsciiDoc cells, one of whose
\* documents lacks the anchor that the parent registers; the guard of the
\* nested visit was set on the way
C21_Witness ==
  /\ pending = <<>> /\ Len(ctxs) = 1
  /\ Len(cell_backends) = 2
  /\ \E k \in DOMAIN cell_backends :
        \E i \in DOMAIN cell_backends[k].calls :
           cell_backends[k].calls[i].x = "missing_xref"
  /\ \E k \in DOMAIN cell_backends :
        \E i \in DOMAIN cell_backends[k].calls :
           cell_backends[k].calls[i] = BVisit("inline_text", <<1, 2, 1>>)
  /\ \E i \in DOMAIN backend : backend[i].x = "asciidoc_table_cell_result"


(***************************************************************************)
(* The table of contents: eval_toc_at and its three call sites (eval.rs)   *)
(***************************************************************************)
\* ---- data ----
TocPositions == {"Auto", "Left", "Right", "Preamble", "Macro"}
\* a toc::[] block
TocBlock == Block("TableOfContents", FALSE, <<>>)
\* every position, with no node, one node, or a node with a child
Tocs ==
  {NoToc} \cup
  {Toc(p, ns) : p \in TocPositions,
                ns \in {<<>>, <<TocNode(<<>>)>>, <<TocNode(<<TocNode(<<>>)>>)>>}}
TocContents ==
  {[sectioned |-> FALSE, blocks |-> bs, preamble |-> NoPreamble, sections |-> <<>>] :
      bs \in SeqsUpTo({Paragraph, TocBlock, Block("Open", FALSE, <<TocBlock>>)}, MaxBlocks)}
  \cup
  {[sectioned |-> TRUE, blocks |-> <<>>, preamble |-> p, sections |-> <<s>>] :
      p \in {NoPreamble, [some |-> TRUE, blocks |-> <<Paragraph>>],
             [some |-> TRUE, blocks |-> <<TocBlock>>]},
      s \in {Block("Section", FALSE, <<>>), Block("Section", FALSE, <<TocBlock>>)}}
TocDocuments == {[title |-> TRUE, toc |-> t, content |-> c] : t \in Tocs, c \in TocContents}

TocInit ==
  /\ EvalIdle
  /\ LexIdle
  /\ InlIdle
  /\ UrlIdle
  /\ LnIdle
  /\ doc \in TocDocuments
  /\ backend = <<>>
  /\ pending = VisitCalls(doc)
  /\ ctxs = <<Ctx(doc)>>
  /\ cell_backends = <<>>
  /\ cell_pending = <<>>

\* visit makes its next backend call
TocCall ==
  /\ pending # <<>>
  /\ backend' = Append(backend, Head(pending))
  /\ pending' = Tail(pending)
  /\ UNCHANGED <<doc, ctxs, cell_backends, cell_pending, evalVars, lexVars, inlVars, urlVars, lnVars>>

TocNext == TocCall

TocSpec == TocInit /\ [][TocNext]_vars

\* ---- claims about the table of contents ----
EnterTocAt == {i \in DOMAIN backend : backend[i].op = "enter" /\ backend[i].x = "toc"}
ExitTocAt == {i \in DOMAIN backend : backend[i].op = "exit" /\ backend[i].x = "toc"}
TocBlockPaths == {p \in Paths : BlockAt(doc, p).context = "TableOfContents"}

\* C22: enter_toc is called only at the site that matches toc.position:
\* between exit_header and enter_content for Auto, Left and Right, right
\* after exit_preamble for Preamble, at a TableOfContents block for Macro;
\* never when the document has no toc or the toc has no nodes; at most once
\* per visit for the positions other than Macro.  When visit has returned,
\* the toc was emitted at every present site of its position.
C22_TocOnlyAtItsPosition ==
  LET n == Len(backend)
      toc == doc.toc
  IN /\ \A i \in EnterTocAt :
          /\ toc.some /\ toc.nodes # <<>>
          /\ i > 1
          /\ toc.position \in {"Auto", "Left", "Right"} =>
               /\ backend[i - 1] = BExit("header", <<>>)
               /\ EnterTocAt = {i}
          /\ toc.position = "Preamble" =>
               /\ backend[i - 1] = BExit("preamble", <<0>>)
               /\ EnterTocAt = {i}
          /\ toc.position = "Macro" =>
               /\ backend[i].node \in TocBlockPaths
               /\ \A j \in EnterTocAt : backend[j].node = backend[i].node => j = i
     /\ \A j \in ExitTocAt :
          (j < n /\ toc.position \in {"Auto", "Left", "Right"}) =>
             backend[j + 1] = BEnter("content", <<>>)
     /\ (WalkDone /\ toc.some /\ toc.nodes # <<>>) =>
          Cardinality(EnterTocAt) =
            CASE toc.position = "Macro" -> Cardinality(TocBlockPaths)
              [] toc.position = "Preamble" -> IF doc.content.preamble.some THEN 1 ELSE 0
              [] OTHER -> 1

\* visit has returned for a document with position Macro whose two toc::[]
\* blocks (one inside an open block) both emitted the toc
C22_Witness ==
  /\ WalkDone
  /\ doc.toc.some /\ doc.toc.position = "Macro"
  /\ Cardinality(EnterTocAt) = 2
  /\ \E i \in EnterTocAt : Len(backend[i].node) = 2


(***************************************************************************)
(* Line predicates: starts_constrained, continues_inline_macro,            *)
(* list_marker (line.rs, contiguous_lines.rs, parse_inlines_utils.rs)      *)
(***************************************************************************)
\* Each function is applied to a line drawn from a bounded set of token
\* sequences; a lexeme is the sequence of its characters.

MaxLine == 4       \* tokens on a line

\* ---- tokens ----
WordTok == Tok("Word", <<"f">>)
WsTok(n) == Tok("Whitespace", [i \in 1..n |-> " "])
UnderscoreTok == Tok("Underscore", <<"_">>)
StarTok == Tok("Star", <<"*">>)
DotsTok(n) == Tok("Dots", [i \in 1..n |-> "."])
DashesTok(n) == Tok("Dashes", [i \in 1..n |-> "-"])
DigitsTok == Tok("Digits", <<"1">>)
TermDelimiterTok == Tok("TermDelimiter", <<":", ":">>)

\* the lexer matches a run of one character class as one token
LongestMatch(l) ==
  \A i \in 1..(Len(l) - 1) :
     l[i].kind = l[i + 1].kind => l[i].kind \notin {"Word", "Whitespace", "Dots", "Dashes", "Digits"}
LinesOver(toks) == {l \in SeqsUpTo(toks, MaxLine) : LongestMatch(l)}

\* the remainder of a line after a single `_`
ConstrainedLines == LinesOver({WordTok, UnderscoreTok, WsTok(1)})
\* the remainder of a line after a MacroName token
MacroLines ==
  LinesOver({WordTok, WsTok(1), Tok("OpenBracket", <<"[">>), Tok("CloseBracket", <<"]">>),
             Tok("Backslash", <<"\\">>), Tok("Colon", <<":">>)})
\* the start of a line of a list
MarkerLines ==
  LinesOver({WordTok, WsTok(1), WsTok(2), StarTok, DotsTok(1), DotsTok(2), DashesTok(1),
             DashesTok(3), DigitsTok, TermDelimiterTok})

\* ---- fn list_marker ----
NoMarker == [k |-> "None", n |-> 0]
ListMarker(k, n) == [k |-> k, n |-> n]

\* fn reassemble_src
ReassembleSrc(line) == Flatten([i \in DOMAIN line |-> line[i].lexeme])

\* REPEAT_STAR_LI_START = ^\s?(\*+)\s+.+ : the length of the capture, 0
\* when the source does not match
RECURSIVE StarRun(_, _)
StarRun(src, from) ==
  IF from \in DOMAIN src /\ src[from] = "*" THEN 1 + StarRun(src, from + 1) ELSE 0
RepeatStarLiStart(src) ==
  LET skip == IF src # <<>> /\ src[1] = " " THEN 1 ELSE 0
      stars == StarRun(src, skip + 1)
      p == skip + stars + 1
  IN IF stars > 0 /\ p \in DOMAIN src /\ src[p] = " " /\ Len(src) >= p + 1
     THEN stars ELSE 0

\* Option<&Token>::is and is_some, on the 0-based n-th token
NthIs(line, n, kind) == n + 1 \in DOMAIN line /\ line[n + 1].kind = kind
NthIsSome(line, n) == n + 1 \in DOMAIN line

\* the `_` arm: the first TermDelimiter from offset on
TermMarker(line, offset) ==
  LET found == {i \in (offset + 1)..Len(line) : line[i].kind = "TermDelimiter"}
  IN IF found = {} THEN NoMarker
     ELSE LET t == line[CHOOSE i \in found : \A h \in found : i <= h]
          IN IF t.lexeme[1] = ";" THEN ListMarker("SemiColons", 0)
             ELSE ListMarker("Colons", Len(t.lexeme))

ListMarkerOf(line) ==
  LET offset == IF CurrentIs(line, "Whitespace") THEN 1 ELSE 0
      second == offset + 1
      third == offset + 2
  IN IF ~NthIsSome(line, offset) THEN NoMarker
     ELSE LET token == line[offset + 1]
              k == token.kind
          IN IF k = "Star" /\ NthIs(line, second, "Whitespace") /\ NthIsSome(line, third)
             THEN ListMarker("Star", 1)
             ELSE IF k = "Dots" /\ NthIs(line, second, "Whitespace") /\ NthIsSome(line, third)
             THEN ListMarker("Dot", Len(token.lexeme))
             ELSE IF k = "Dashes" /\ NthIs(line, second, "Whitespace")
                     /\ Len(token.lexeme) = 1 /\ NthIsSome(line, third)
             THEN ListMarker("Dash", 0)
             ELSE IF k = "Star" /\ NthIs(line, second, "Star")
             THEN IF RepeatStarLiStart(ReassembleSrc(line)) = 0 THEN NoMarker
                  ELSE ListMarker("Star", RepeatStarLiStart(ReassembleSrc(line)))
             ELSE IF k = "CalloutNumber" /\ token.lexeme[2] # "!"
             THEN ListMarker("Callout", 0)
             ELSE IF k = "Digits" /\ NthIs(line, second, "Dots")
                     /\ NthIs(line, third, "Whitespace")
             THEN ListMarker("Digits", 1)
             ELSE TermMarker(line, offset)

\* ---- the specification ----
LineInit ==
  /\ EvalIdle
  /\ LexIdle
  /\ InlIdle
  /\ UrlIdle
  /\ WalkIdle
  /\ lnCalls = {}
  /\ \/ lnLine \in ConstrainedLines
        /\ lnRest \in {<<>>, <<<<WordTok, UnderscoreTok>>>>}
     \/ lnLine \in MacroLines \cup MarkerLines
        /\ lnRest = <<>>

LnCalled(op) == \E c \in lnCalls : c.op = op
LnCall(op, r) == [op |-> op, result |-> r]
\* a bool result, and an Option<ListMarker> result by its variant
Bool(b) == IF b THEN "true" ELSE "false"

\* starts_constrained(&[Underscore], &token, &line, block) where token is a
\* single `_`, line the rest of its line and block the lines after it
LineStartsConstrained ==
  /\ ~LnCalled("starts_constrained")
  /\ lnCalls' = lnCalls \cup
        {LnCall("starts_constrained",
                Bool(StartsConstrained(<<"Underscore">>, UnderscoreTok, lnLine, lnRest)))}
  /\ UNCHANGED <<lnLine, lnRest, evalVars, lexVars, inlVars, urlVars, walkVars>>

\* line.continues_inline_macro()
LineContinuesInlineMacro ==
  /\ ~LnCalled("continues_inline_macro")
  /\ lnCalls' = lnCalls \cup
        {LnCall("continues_inline_macro", Bool(ContinuesInlineMacro(lnLine)))}
  /\ UNCHANGED <<lnLine, lnRest, evalVars, lexVars, inlVars, urlVars, walkVars>>

\* line.list_marker()
LineListMarker ==
  /\ ~LnCalled("list_marker")
  /\ lnCalls' = lnCalls \cup {LnCall("list_marker", ListMarkerOf(lnLine).k)}
  /\ UNCHANGED <<lnLine, lnRest, evalVars, lexVars, inlVars, urlVars, walkVars>>

LineNext ==
  \/ LineStartsConstrained
  \/ LineContinuesInlineMacro
  \/ LineListMarker

LineSpec == LineInit /\ [][LineNext]_vars

\* ---- claims about Line ----
LnResult(op) == (CHOOSE c \in lnCalls : c.op = op).result

\* D occurs on the line at a non-initial position, followed by a token that
\* is not a Word or by the end of the line
ClosesLater(l, kind) ==
  \E i \in 2..Len(l) : l[i].kind = kind /\ (i = Len(l) \/ l[i + 1].kind # "Word")

\* C23: a single `_` opens a constrained span whenever some later `_` in the
\* remaining lines is at a non-initial position of its line and is followed
\* by a token that is not a Word or by the end of the line, also when an
\* earlier `_` of that line is followed by a Word.  (Stated for the lines
\* that do not begin with `_`.)
C23_LaterOccurrenceOpensSpan ==
  (LnCalled("starts_constrained") /\ lnLine \in ConstrainedLines
   /\ ~CurrentIs(lnLine, "Underscore")) =>
     ((ClosesLater(lnLine, "Underscore")
       \/ \E i \in DOMAIN lnRest : ClosesLater(lnRest[i], "Underscore"))
      => LnResult("starts_constrained") = "true")

\* the first OpenBracket of the line, 0 when there is none
FirstOpenBracket(l) ==
  LET found == {i \in DOMAIN l : l[i].kind = "OpenBracket"}
  IN IF found = {} THEN 0 ELSE CHOOSE i \in found : \A h \in found : i <= h

\* C24: continues_inline_macro is true only if the line reaches an
\* OpenBracket with no Whitespace before it and a CloseBracket that is not
\* escaped occurs after that OpenBracket.
C24_CloseBracketAfterOpenBracket ==
  (LnCalled("continues_inline_macro") /\ LnResult("continues_inline_macro") = "true") =>
     LET o == FirstOpenBracket(lnLine)
     IN /\ o > 0
        /\ \A h \in 1..(o - 1) : lnLine[h].kind # "Whitespace"
        /\ \E j \in (o + 1)..Len(lnLine) :
              lnLine[j].kind = "CloseBracket" /\ lnLine[j - 1].kind # "Backslash"

\* the lines that consist of a list marker and whitespace
Markers ==
  {<<StarTok>>, <<StarTok, StarTok>>, <<DotsTok(1)>>, <<DotsTok(2)>>, <<DashesTok(1)>>,
   <<DigitsTok, DotsTok(1)>>}
MarkerOnlyLines == {m \o <<w>> : m \in Markers, w \in {WsTok(1), WsTok(2)}}

\* C25: list_marker returns None for every line that consists of a list
\* marker followed only by whitespace, for each of `*`, `**`, `.`, `..`, `-`
\* and `N.`.
C25_MarkerNeedsContent ==
  (LnCalled("list_marker") /\ lnLine \in MarkerOnlyLines) => LnResult("list_marker") = "None"


(***************************************************************************)
(* RootLexer::peek, is_eof and skip_byte (root_lexer.rs)                   *)
(***************************************************************************)
\* a byte by where it lies: in tmp buffer b or in source i, at position at
TmpByte(b, at) == [kind |-> "Byte", tmp |-> b, src |-> NoIdx, at |-> at, loc |-> Loc(0, 0, 0)]
SrcByte(i, at) == [kind |-> "Byte", tmp |-> 0, src |-> i, at |-> at, loc |-> Loc(0, 0, 0)]
NoByte == [kind |-> "None", tmp |-> 0, src |-> NoIdx, at |-> 0, loc |-> Loc(0, 0, 0)]

\* SourceLexer::peek of source i
SrcPeek(L, i) == IF SrcIsEof(Src(L, i)) THEN NoByte ELSE SrcByte(i, Src(L, i).pos)

\* fn peek
PeekOf(L) ==
  IF L.tmp_buf.some
  THEN IF L.tmp_buf.pos < L.tmp_buf.len THEN TmpByte(L.tmp_buf.id, L.tmp_buf.pos) ELSE NoByte
  ELSE IF L.next_idx # NoIdx THEN SrcPeek(L, L.next_idx)
  ELSE IF SrcPeek(L, L.idx) # NoByte THEN SrcPeek(L, L.idx)
  ELSE IF L.source_stack # <<>> THEN SrcPeek(L, L.source_stack[Len(L.source_stack)])
  ELSE NoByte

\* the byte that skip_byte moves a read position past, if any
SkippedByte(L) ==
  LET A == SkipByteOf(L)
      moved == {i \in DOMAIN L.sources : A.sources[i].pos # L.sources[i].pos}
  IN IF L.tmp_buf.some
     THEN IF L.tmp_buf.pos < L.tmp_buf.len THEN TmpByte(L.tmp_buf.id, L.tmp_buf.pos)
          ELSE NoByte
     ELSE IF moved = {} THEN NoByte
     ELSE LET i == CHOOSE i \in moved : TRUE IN SrcByte(i - 1, L.sources[i].pos)

PeekPushSource ==
  /\ Len(trace) < MaxCalls
  /\ \E nl \in PushNewlines : PushSource(2, NoDepth, nl)

PeekSetTmpBuf ==
  /\ Len(trace) < MaxCalls
  /\ \E n \in TmpLens : SetTmpBuf(n, Offset(0))

PeekNextToken ==
  /\ Len(trace) < MaxCalls
  /\ NextToken

\* fn skip_byte; the event holds the byte skipped
PeekSkipByte ==
  /\ Len(trace) < MaxCalls
  /\ LexBecomes(SkipByteOf(Lexer))
  /\ trace' = Append(trace, Event("skip_byte", 0, SkippedByte(Lexer), FALSE))
  /\ UNCHANGED <<pushedAt, overwritten, evalVars, inlVars, restVars>>

\* fn peek (and is_eof, which is peek().is_none()); the event holds the
\* byte returned
PeekPeek ==
  /\ Len(trace) < MaxCalls
  /\ trace' = Append(trace, Event("peek", 0, PeekOf(Lexer), AllExhausted(Lexer)))
  /\ UNCHANGED <<idx, next_idx, source_stack, sources, tmp_buf, pushedAt, overwritten,
                 evalVars, inlVars, restVars>>

PeekNext ==
  \/ PeekPushSource
  \/ PeekSetTmpBuf
  \/ PeekNextToken
  \/ PeekSkipByte
  \/ PeekPeek

PeekSpec == AdvInit /\ [][PeekNext]_vars

\* C26: peek() returns None exactly when the next call of next_token would
\* return Eof, so never while the tmp buffer, the pending source, the active
\* source or a stacked source has unread bytes, also after set_tmp_buf with
\* an empty string; and a skip_byte that follows a peek consumes exactly the
\* byte that peek returned.
C26_PeekNoneIffEof ==
  \A j \in DOMAIN trace :
     trace[j].op = "peek" =>
        /\ j = Len(trace) =>
             /\ (trace[j].tok = NoByte) <=> (NextTokenOf(Lexer).tok.kind = "Eof")
             /\ (trace[j].tok = NoByte) => trace[j].exh
        /\ (j < Len(trace) /\ trace[j + 1].op = "skip_byte") =>
             trace[j + 1].tok = trace[j].tok


\* C27: every source passed to push_source is activated and fully lexed
\* before next_token returns Eof, also when push_source is called twice with
\* no token requested in between: at an Eof every token of every source
\* pushed before it has been returned.
C27_EveryPushedSourceLexedBeforeEof ==
  \A j \in NextEvents : trace[j].tok.kind = "Eof" =>
     \A m \in PushEvents : m < j =>
        \A a \in 0..(SrcLen(trace[m].id) - 1) :
           ReturnedBefore(SrcToken(trace[m].id, a), j)


\* C30: when parse_inlines_until returns Err, an attribute-list error that
\* comes from inside a +x+, ++x++ or literal mono pass-through, self.ctx.subs
\* equals the value it had when that call was entered.
C30_SubsRestoredOnErr ==
  \A r \in Range(returns) : ~r.ok => r.ctx = r.entry


\* a call of parse_inlines_until with non-empty stop_tokens has left its
\* while loop with no line remaining: it returns at the fall-through
\* `Ok(inlines)` without having consumed its stop sequence
FallsThrough ==
  /\ At("while")
  /\ block = <<>>
  /\ InlTop(Machine).stop # <<>>

\* C28: a recursive parse_inlines_until with non-empty stop_tokens returns by
\* consuming exactly that stop sequence, never by running out of lines, also
\* when delimiters of different kinds interleave.
C28_SpanReturnsAtStop == ~FallsThrough


(***************************************************************************)
(* eval_block over the delimited and paragraph-like contexts (eval.rs)     *)
(***************************************************************************)
\* ---- data ----
DelimitedContexts ==
  {"Paragraph", "Sidebar", "Listing", "BlockQuote", "Verse", "Open", "Example",
   "Literal", "Passthrough"} \cup Admonitions
\* Content::Simple(inlines) and Content::Compound(blocks) of every such context
SimpleBlocks ==
  {BlockOf(c, t, "Simple", <<TextNode>>) : c \in DelimitedContexts, t \in BOOLEAN}
CompoundBlocks ==
  {BlockOf(c, t, "Compound", bs) :
     c \in DelimitedContexts, t \in BOOLEAN, bs \in SeqsUpTo({Paragraph}, MaxKids)}
\* a document of one such block, alone or after a paragraph
BlockDocuments ==
  {[title |-> FALSE, toc |-> NoToc,
    content |-> [sectioned |-> FALSE, blocks |-> bs, preamble |-> NoPreamble,
                 sections |-> <<>>]] :
     bs \in {<<b>> : b \in SimpleBlocks \cup CompoundBlocks}
            \cup {<<Paragraph, b>> : b \in SimpleBlocks \cup CompoundBlocks}}

DispatchInit ==
  /\ EvalIdle
  /\ LexIdle
  /\ InlIdle
  /\ UrlIdle
  /\ LnIdle
  /\ doc \in BlockDocuments
  /\ backend = <<>>
  /\ pending = VisitCalls(doc)
  /\ ctxs = <<Ctx(doc)>>
  /\ cell_backends = <<>>
  /\ cell_pending = <<>>

\* visit makes its next backend call
DispatchCall ==
  /\ pending # <<>>
  /\ Head(pending).op # "panic"
  /\ backend' = Append(backend, Head(pending))
  /\ pending' = Tail(pending)
  /\ UNCHANGED <<doc, ctxs, cell_backends, cell_pending, evalVars, lexVars, inlVars, urlVars, lnVars>>

\* eval_block reaches the fallback arm: todo!() panics and visit makes no
\* further call
DispatchTodo ==
  /\ pending # <<>>
  /\ Head(pending).op = "panic"
  /\ backend' = Append(backend, Head(pending))
  /\ pending' = <<>>
  /\ UNCHANGED <<doc, ctxs, cell_backends, cell_pending, evalVars, lexVars, inlVars, urlVars, lnVars>>

DispatchNext ==
  \/ DispatchCall
  \/ DispatchTodo

DispatchSpec == DispatchInit /\ [][DispatchNext]_vars

\* C29: eval_block is total over the data model: for every Block whose
\* context is Paragraph, Sidebar, Listing, BlockQuote, Verse, Open, Example,
\* Literal, Passthrough or an admonition, with Simple or Compound content, it
\* dispatches to backend calls and never reaches the todo!() fallback arm.
C29_EvalBlockTotal ==
  \A i \in DOMAIN backend : backend[i].op # "panic"

=============================================================================
